---- MODULE Spec2Model ----
(***************************************************************************)
(* Heaty: schedule-driven thermostat control with manual override and a    *)
(* per-room re-schedule (debounce) timer.  The model follows               *)
(* src/hass_heaty/app.py: every callback of the Heaty class is an operator *)
(* from application state to application state, and the actions of the     *)
(* specification deliver one notification each.  The Schedule and Rule      *)
(* classes follow src/hass_heaty/schedule.py, the outcomes of temperature  *)
(* expressions src/hass_heaty/expr.py.                                     *)
(*                                                                         *)
(* Time is counted in units of 0.1 minute, the delay the heaty_reschedule  *)
(* event uses (app.py:223), so every delay of the model is a whole number. *)
(***************************************************************************)
EXTENDS Integers, Sequences, FiniteSets, TLC

VARIABLES
    rooms,              \* the names of self.cfg["rooms"], in dict order
    now,                \* self.datetime(), in time units since day 0, 00:00
    master,             \* state of the master switch entity ("on" = TRUE)
    schedule_switch,    \* state of each schedule switch entity
    window,             \* state of each window sensor entity ("on" = TRUE)
    current_temps,      \* self.current_temps
    reschedule_timers,  \* self.reschedule_timers: room -> timer handle
    timers,             \* timer service: armed one-shot timers
    queue,              \* callbacks dispatched by the host, not yet executed
    calls,              \* service calls issued by the last callback
    ev,                 \* the last notification handled (history)
    quiet,              \* the environment sends no further notification
    schedule,           \* a Schedule object of schedule.py and what its
                        \* last get_slots returned
    temp_op             \* the last operation on Temp objects of expr.py:
                        \* its operands and what it gave

vars == <<rooms, now, master, schedule_switch, window, current_temps,
          reschedule_timers, timers, queue, calls, ev, quiet, schedule,
          temp_op>>

----------------------------------------------------------------------------
(* Bounds of the model *)

MaxTime == 3
DayLen == 3
MaxDup == 1
MaxValue == 2

----------------------------------------------------------------------------
(* Values *)

Num(v) == [kind |-> "num", value |-> v]
Off == [kind |-> "off", value |-> 0]
None == [kind |-> "none", value |-> 0]
TEMP_EXPR_IGNORE == [kind |-> "ignore", value |-> 0]

\* the outcome objects of expr.py an expression can construct
Break == [kind |-> "break", value |-> 0]
Add(v) == [kind |-> "add", value |-> v]
Raises == [kind |-> "raises", value |-> 0]

Lit(t) == [kind |-> "lit", temp |-> t]
Dyn(r) == [kind |-> "dyn", temp |-> r]

IsNumber(x) == x.kind = "num"

\* A timer handle is an opaque unique id.  The model names a handle after
\* the room and due time of its timer, and numbers the handles that agree
\* on both.  force is history: whether update_reschedule_timer armed the
\* timer with force=True; no callback reads it.
Handle(room_name, when, force, n) ==
    [room_name |-> room_name, when |-> when, force |-> force, n |-> n]
NoHandle == Handle("None", 0, FALSE, 0)

\* reschedule_delay=0.1 minutes of the heaty_reschedule event, in time units
ForceDelay == 1

----------------------------------------------------------------------------
(* Configuration (self.cfg), as delivered by config.parse_config *)

AllRooms == {"r1", "r2", "r3", "r4", "r5"}
UnknownRoom == "nowhere"

\* the rooms of a configuration
Rooms(s) == {s.rooms[i] : i \in 1..Len(s.rooms)}

\* room["thermostats"], in the iteration order of the dict
ThermostatList(room_name) ==
    IF room_name = "r1" THEN <<"t1", "t2">> ELSE <<"t3">>
Thermostats(room_name) ==
    {ThermostatList(room_name)[i] : i \in 1..Len(ThermostatList(room_name))}

WindowSensors(room_name) ==
    IF room_name = "r1" THEN {"w1"}
    ELSE IF room_name = "r4" THEN {"w4"}
    ELSE IF room_name = "r5" THEN {"w5"}
    ELSE {}
AllWindowSensors(s) == UNION {WindowSensors(r) : r \in Rooms(s)}

cfg_master_switch == TRUE
cfg_master_controls_schedule_switches == TRUE
\* the app of room r1 accepts temperature expressions in events, the apps of
\* the other rooms accept literal temperatures only
cfg_untrusted_temp_expressions(s) == "r1" \in Rooms(s)
cfg_off_temp == Off
cfg_schedule_switch(room_name) == room_name = "r1"
SwitchRooms(s) == {r \in Rooms(s) : cfg_schedule_switch(r)}
cfg_replicate_changes(room_name) == TRUE
cfg_reschedule_delay(room_name) == IF room_name = "r1" THEN 2 ELSE 0
cfg_inverted(sensor_name) == sensor_name = "w5"
cfg_delta(therm_name) == 0
cfg_min_temp(therm_name) == IF therm_name = "t2" THEN Num(22) ELSE None
cfg_ignore_updates(therm_name) == FALSE

\* room["schedule"]: rules in declared order
MatchingRule(start, end, plus, expr) ==
    [start_time |-> start, end_time |-> end, end_plus_days |-> plus,
     temp_expr |-> expr]

cfg_schedule(room_name) ==
    IF room_name = "r1"
    THEN << MatchingRule(0, 1, 0, Dyn(Num(23))),
            MatchingRule(1, 2, 0, Dyn(TEMP_EXPR_IGNORE)),
            MatchingRule(0, 0, 1, Lit(Num(21))) >>
    ELSE IF room_name = "r2"
    THEN << MatchingRule(0, 1, 0, Dyn(Add(0 - 2))),
            MatchingRule(1, 2, 0, Dyn(Break)),
            MatchingRule(2, 0, 1, Dyn(Raises)),
            MatchingRule(2, 0, 1, Lit(Num(23))),
            MatchingRule(0, 0, 1, Lit(Num(21))) >>
    ELSE << MatchingRule(1, 2, 0, Dyn(TEMP_EXPR_IGNORE)),
            MatchingRule(2, 0, 1, Dyn(TEMP_EXPR_IGNORE)),
            MatchingRule(2, 0, 1, Lit(Num(23))) >>

----------------------------------------------------------------------------
(* The application state a callback works on *)

Here ==
    [rooms |-> rooms, now |-> now, master |-> master, schedule_switch |-> schedule_switch,
     window |-> window, current_temps |-> current_temps,
     reschedule_timers |-> reschedule_timers, timers |-> timers,
     queue |-> queue, calls |-> <<>>]

Min(S) == CHOOSE x \in S : \A y \in S : x <= y

\* d[k] = v and del d[k] on a Python dict
DictSet(d, k, v) == [x \in DOMAIN d \cup {k} |-> IF x = k THEN v ELSE d[x]]
DictDel(d, k) == [x \in DOMAIN d \ {k} |-> d[x]]

----------------------------------------------------------------------------
(* Switches and window sensors *)

master_switch_enabled(s) ==
    IF cfg_master_switch THEN s.master ELSE TRUE

schedule_switch_enabled(s, room_name) ==
    IF cfg_schedule_switch(room_name)
    THEN s.schedule_switch[room_name]
    ELSE TRUE

get_open_windows(s, room_name) ==
    {sensor_name \in WindowSensors(room_name) :
        s.window[sensor_name] \/ cfg_inverted(sensor_name)}

----------------------------------------------------------------------------
(* Temperature expressions *)

\* util.parse_temp applied to a literal or to an evaluation result
parse_temp(x) ==
    IF x.kind \in {"num", "off"} THEN x ELSE None

\* the truth value Python gives the result of parse_temp
Truthy(x) ==
    \/ x.kind = "off"
    \/ x.kind = "num" /\ x.value # 0

\* what eval(temp_expr, env) yields: the literal itself, or the outcome of
\* running the dynamic expression
PyEval(s, temp_expr) == temp_expr.temp

util_eval_temp_expr(s, temp_expr) ==
    LET parsed == IF temp_expr.kind = "lit"
                  THEN parse_temp(temp_expr.temp)
                  ELSE None
    IN  IF Truthy(parsed)
        THEN parsed
        ELSE LET temp == PyEval(s, temp_expr)
             IN  IF temp = Raises THEN Raises
                 ELSE IF temp = TEMP_EXPR_IGNORE THEN temp
                 ELSE IF ~Truthy(parse_temp(temp)) THEN Raises
                 ELSE parse_temp(temp)

eval_temp_expr(s, temp_expr) ==
    LET r == util_eval_temp_expr(s, temp_expr)
    IN  IF r = Raises THEN None ELSE r

----------------------------------------------------------------------------
(* Schedule resolution *)

DateTime(day, time) == day * DayLen + time

RuleActive(rule, when) ==
    LET date == when \div DayLen
    IN  \E d \in (date - rule.end_plus_days)..date :
            /\ DateTime(d, rule.start_time) <= when
            /\ when < DateTime(d + rule.end_plus_days, rule.end_time)

get_matching_rules(room_name, when) ==
    SelectSeq(cfg_schedule(room_name), LAMBDA rule : RuleActive(rule, when))

\* variant: only the first matching rule is looked at
get_scheduled_temp_first_rule(s, room_name) ==
    LET rules == get_matching_rules(room_name, s.now)
        temp(i) == eval_temp_expr(s, rules[i].temp_expr)
    IN  IF Len(rules) = 0 \/ temp(1) \in {None, TEMP_EXPR_IGNORE}
        THEN None
        ELSE temp(1)

\* variant: a rule whose expression gives nothing ends the pass
get_scheduled_temp_aborting(s, room_name) ==
    LET rules == get_matching_rules(room_name, s.now)
        temp(i) == eval_temp_expr(s, rules[i].temp_expr)
        found == {i \in 1..Len(rules) : temp(i) # TEMP_EXPR_IGNORE}
    IN  IF found = {} THEN None ELSE temp(Min(found))

get_scheduled_temp(s, room_name) ==
    LET rules == get_matching_rules(room_name, s.now)
        temp(i) == eval_temp_expr(s, rules[i].temp_expr)
        found == {i \in 1..Len(rules) :
                    temp(i) \notin {None, TEMP_EXPR_IGNORE}}
    IN  IF found = {} THEN None ELSE temp(Min(found))

----------------------------------------------------------------------------
(* Sending temperatures to the thermostats *)

ThermCommand(therm_name, target_temp) ==
    IF target_temp = Off
    THEN [opmode |-> "Off", value |-> None]
    ELSE LET value == target_temp.value + cfg_delta(therm_name)
         IN  IF cfg_min_temp(therm_name) # None
                /\ value < cfg_min_temp(therm_name).value
             THEN [opmode |-> "Off", value |-> None]
             ELSE [opmode |-> "Heat", value |-> Num(value)]

ServiceCalls(therm_name, target_temp) ==
    LET c == ThermCommand(therm_name, target_temp)
    IN  <<[entity_id |-> therm_name, service |-> "opmode",
           opmode |-> c.opmode, value |-> None]>>
        \o (IF c.value # None
            THEN <<[entity_id |-> therm_name, service |-> "temp",
                    opmode |-> c.opmode, value |-> c.value]>>
            ELSE <<>>)

RECURSIVE AllServiceCalls(_, _, _)
AllServiceCalls(room_name, target_temp, i) ==
    IF i > Len(ThermostatList(room_name))
    THEN <<>>
    ELSE ServiceCalls(ThermostatList(room_name)[i], target_temp)
         \o AllServiceCalls(room_name, target_temp, i + 1)

\* variant: the temperature is recorded for every room of the app
set_temp_every_room(s, room_name, target_temp, scheduled) ==
    IF scheduled /\ (~master_switch_enabled(s)
                     \/ ~schedule_switch_enabled(s, room_name))
    THEN s
    ELSE [s EXCEPT
            !.current_temps = [r \in DOMAIN @ |-> target_temp],
            !.calls = @ \o AllServiceCalls(room_name, target_temp, 1)]

set_temp(s, room_name, target_temp, scheduled) ==
    IF scheduled /\ (~master_switch_enabled(s)
                     \/ ~schedule_switch_enabled(s, room_name))
    THEN s
    ELSE [s EXCEPT
            !.current_temps[room_name] = target_temp,
            !.calls = @ \o AllServiceCalls(room_name, target_temp, 1)]

\* variant: the scheduled temperature is sent whether or not it changed
set_scheduled_temp_resend(s, room_name, force_resend) ==
    IF \/ ~master_switch_enabled(s)
       \/ ~schedule_switch_enabled(s, room_name)
       \/ room_name \in DOMAIN s.reschedule_timers
       \/ get_open_windows(s, room_name) # {}
    THEN s
    ELSE LET temp == get_scheduled_temp(s, room_name)
         IN  IF temp = None THEN s
             ELSE set_temp(s, room_name, temp, TRUE)

\* variant: open windows do not keep the schedule from the room
set_scheduled_temp_windowless(s, room_name, force_resend) ==
    IF \/ ~master_switch_enabled(s)
       \/ ~schedule_switch_enabled(s, room_name)
       \/ room_name \in DOMAIN s.reschedule_timers
    THEN s
    ELSE LET temp == get_scheduled_temp(s, room_name)
         IN  IF temp = None THEN s
             ELSE IF s.current_temps[room_name] # temp \/ force_resend
             THEN set_temp(s, room_name, temp, TRUE)
             ELSE s

\* variant: without a decision the room is turned off
set_scheduled_temp_none_off(s, room_name, force_resend) ==
    IF \/ ~master_switch_enabled(s)
       \/ ~schedule_switch_enabled(s, room_name)
       \/ room_name \in DOMAIN s.reschedule_timers
       \/ get_open_windows(s, room_name) # {}
    THEN s
    ELSE LET temp == get_scheduled_temp(s, room_name)
         IN  IF temp = None THEN set_temp(s, room_name, Off, TRUE)
             ELSE IF s.current_temps[room_name] # temp \/ force_resend
             THEN set_temp(s, room_name, temp, TRUE)
             ELSE s

set_scheduled_temp(s, room_name, force_resend) ==
    IF \/ ~master_switch_enabled(s)
       \/ ~schedule_switch_enabled(s, room_name)
       \/ room_name \in DOMAIN s.reschedule_timers
       \/ get_open_windows(s, room_name) # {}
    THEN s
    ELSE LET temp == get_scheduled_temp(s, room_name)
         IN  IF temp = None THEN s
             ELSE IF s.current_temps[room_name] # temp \/ force_resend
             THEN set_temp(s, room_name, temp, TRUE)
             ELSE s

----------------------------------------------------------------------------
(* The re-schedule timer *)

UsedHandles(s) ==
    s.timers \cup {q.handle : q \in s.queue}
    \cup {s.reschedule_timers[r] : r \in DOMAIN s.reschedule_timers}

\* the handle run_at returns: one that names no other timer, armed, fired
\* or still recorded
NewHandle(s, room_name, when, force) ==
    Handle(room_name, when, force,
           Min({n \in 1..(MaxDup + 1) :
                  Handle(room_name, when, force, n) \notin UsedHandles(s)}))

\* variant: the timer service drops the timer it is asked to arm
run_at_dropped(s, handle) ==
    s

run_at(s, handle) ==
    [s EXCEPT !.timers = @ \cup {handle}]

cancel_timer(s, handle) ==
    [s EXCEPT !.timers = @ \ {handle}]

cancel_reschedule_timer(s, room_name) ==
    IF room_name \notin DOMAIN s.reschedule_timers
    THEN s
    ELSE LET timer == s.reschedule_timers[room_name]
             popped == [s EXCEPT !.reschedule_timers =
                         DictDel(@, room_name)]
         IN  cancel_timer(popped, timer)

\* variant: the delay handed in does not overwrite the room's
update_reschedule_timer_room_delay(s, room_name, reschedule_delay, force) ==
    LET s1 == cancel_reschedule_timer(s, room_name)
    IN  IF ~master_switch_enabled(s1)
           \/ ~schedule_switch_enabled(s1, room_name)
        THEN s1
        ELSE
        LET delay == cfg_reschedule_delay(room_name)
            temp == s1.current_temps[room_name]
        IN  IF delay = 0
               \/ (~force /\ temp = get_scheduled_temp(s1, room_name))
            THEN s1
            ELSE LET when == s1.now + delay
                     timer == NewHandle(s1, room_name, when, force)
                     s3 == run_at(s1, timer)
                 IN  [s3 EXCEPT !.reschedule_timers =
                        DictSet(@, room_name, timer)]

\* variant: the timer is armed without comparing the room's temperature
\* with the scheduled one
update_reschedule_timer_unchecked(s, room_name, reschedule_delay, force) ==
    LET s1 == cancel_reschedule_timer(s, room_name)
    IN  IF ~master_switch_enabled(s1)
           \/ ~schedule_switch_enabled(s1, room_name)
        THEN s1
        ELSE
        LET delay == IF reschedule_delay = None
                     THEN cfg_reschedule_delay(room_name)
                     ELSE reschedule_delay.value
        IN  IF delay = 0
            THEN s1
            ELSE LET when == s1.now + delay
                     timer == NewHandle(s1, room_name, when, force)
                     s3 == run_at(s1, timer)
                 IN  [s3 EXCEPT !.reschedule_timers =
                        DictSet(@, room_name, timer)]

update_reschedule_timer(s, room_name, reschedule_delay, force) ==
    LET s1 == cancel_reschedule_timer(s, room_name)
    IN  IF ~master_switch_enabled(s1)
           \/ ~schedule_switch_enabled(s1, room_name)
        THEN s1
        ELSE
        LET s2 == cancel_reschedule_timer(s1, room_name)
            delay == IF reschedule_delay = None
                     THEN cfg_reschedule_delay(room_name)
                     ELSE reschedule_delay.value
            temp == s2.current_temps[room_name]
        IN  IF delay = 0
               \/ (~force /\ temp = get_scheduled_temp(s2, room_name))
            THEN s2
            ELSE LET when == s2.now + delay
                     timer == NewHandle(s2, room_name, when, force)
                     s3 == run_at(s2, timer)
                 IN  [s3 EXCEPT !.reschedule_timers =
                        DictSet(@, room_name, timer)]

\* update_reschedule_timer calls run_at: it neither returns for a switch
\* that is off nor for a delay of 0 or a room at its scheduled temperature
ReachesRunAt(s, room_name, reschedule_delay, force) ==
    LET s2 == cancel_reschedule_timer(s, room_name)
        delay == IF reschedule_delay = None
                 THEN cfg_reschedule_delay(room_name)
                 ELSE reschedule_delay.value
    IN  /\ master_switch_enabled(s2)
        /\ schedule_switch_enabled(s2, room_name)
        /\ delay # 0
        /\ force \/ s2.current_temps[room_name]
                       # get_scheduled_temp(s2, room_name)

\* update_reschedule_timer when run_at raises: the exception leaves the
\* method before the handle is recorded
update_reschedule_timer_run_at_raises(s, room_name, reschedule_delay, force) ==
    cancel_reschedule_timer(s, room_name)

----------------------------------------------------------------------------
(* Callbacks *)

\* variant: the test for a running re-schedule timer is inverted
schedule_cb_inverted(s, room_name) ==
    IF room_name \notin DOMAIN s.reschedule_timers
    THEN s
    ELSE set_scheduled_temp(s, room_name, FALSE)

schedule_cb(s, room_name) ==
    IF room_name \in DOMAIN s.reschedule_timers
    THEN s
    ELSE set_scheduled_temp(s, room_name, FALSE)

\* variant: the room's handle is not deleted
reschedule_timer_cb_keeps_handle(s, room_name) ==
    set_scheduled_temp(s, room_name, FALSE)

\* variant: the handle is deleted and the schedule is not applied
reschedule_timer_cb_no_schedule(s, room_name) ==
    [s EXCEPT !.reschedule_timers = DictDel(@, room_name)]

reschedule_timer_cb(s, room_name) ==
    LET deleted == [s EXCEPT !.reschedule_timers =
                      DictDel(@, room_name)]
    IN  set_scheduled_temp(deleted, room_name, FALSE)

\* variant: the timer of the event is updated without force
reschedule_room_unforced(s, room_name) ==
    IF ~master_switch_enabled(s) \/ ~schedule_switch_enabled(s, room_name)
    THEN s
    ELSE update_reschedule_timer(s, room_name, Num(ForceDelay), FALSE)

reschedule_room(s, room_name) ==
    IF ~master_switch_enabled(s) \/ ~schedule_switch_enabled(s, room_name)
    THEN s
    ELSE update_reschedule_timer(s, room_name, Num(ForceDelay), TRUE)

RECURSIVE reschedule_rooms(_, _, _)
reschedule_rooms(s, room_names, i) ==
    IF i > Len(room_names)
    THEN s
    ELSE reschedule_rooms(reschedule_room(s, room_names[i]), room_names, i + 1)

\* data_room is data.get("room_name"): None when the event names no room
reschedule_event_cb(s, data_room) ==
    IF data_room # "None"
    THEN IF data_room \notin Rooms(s)
         THEN s
         ELSE reschedule_rooms(s, <<data_room>>, 1)
    ELSE reschedule_rooms(s, s.rooms, 1)

\* variant: the re-schedule timer is updated only when a temperature is sent
set_manual_temp_on_send(s, room_name, temp_expr, force_resend, reschedule_delay) ==
    IF ~master_switch_enabled(s) \/ get_open_windows(s, room_name) # {}
    THEN s
    ELSE LET temp == eval_temp_expr(s, temp_expr)
         IN  IF temp \in {None, TEMP_EXPR_IGNORE}
             THEN s
             ELSE IF s.current_temps[room_name] # temp \/ force_resend
             THEN update_reschedule_timer(
                      set_temp(s, room_name, temp, FALSE), room_name,
                      reschedule_delay, FALSE)
             ELSE s

\* variant: force_resend is not looked at
set_manual_temp_unforced(s, room_name, temp_expr, force_resend, reschedule_delay) ==
    IF ~master_switch_enabled(s) \/ get_open_windows(s, room_name) # {}
    THEN s
    ELSE LET temp == eval_temp_expr(s, temp_expr)
         IN  IF temp \in {None, TEMP_EXPR_IGNORE}
             THEN s
             ELSE LET s1 == IF s.current_temps[room_name] # temp
                            THEN set_temp(s, room_name, temp, FALSE)
                            ELSE s
                  IN  update_reschedule_timer(s1, room_name,
                                              reschedule_delay, FALSE)

set_manual_temp(s, room_name, temp_expr, force_resend, reschedule_delay) ==
    IF ~master_switch_enabled(s) \/ get_open_windows(s, room_name) # {}
    THEN s
    ELSE LET temp == eval_temp_expr(s, temp_expr)
         IN  IF temp \in {None, TEMP_EXPR_IGNORE}
             THEN s
             ELSE LET s1 == IF s.current_temps[room_name] # temp
                               \/ force_resend
                            THEN set_temp(s, room_name, temp, FALSE)
                            ELSE s
                  IN  update_reschedule_timer(s1, room_name,
                                              reschedule_delay, FALSE)

\* data: [room_name, temp, reschedule_delay, force_resend]; a missing key is
\* the value Missing, a reschedule_delay of another type the value BadType
Missing == [kind |-> "missing", value |-> 0]
BadType == [kind |-> "badtype", value |-> 0]

\* variant: any temperature expression is accepted
set_temp_event_cb_trusting(s, data) ==
    IF \/ data.room_name = "None"
       \/ data.temp = Missing
       \/ data.reschedule_delay = BadType
       \/ (IsNumber(data.reschedule_delay) /\ data.reschedule_delay.value < 0)
    THEN s
    ELSE IF data.room_name \notin Rooms(s)
    THEN s
    ELSE set_manual_temp(s, data.room_name, data.temp, data.force_resend,
                         data.reschedule_delay)

set_temp_event_cb(s, data) ==
    IF \/ data.room_name = "None"
       \/ data.temp = Missing
       \/ data.reschedule_delay = BadType
       \/ (IsNumber(data.reschedule_delay) /\ data.reschedule_delay.value < 0)
    THEN s
    ELSE IF data.room_name \notin Rooms(s)
    THEN s
    ELSE IF ~cfg_untrusted_temp_expressions(s)
            /\ (data.temp.kind # "lit" \/ parse_temp(data.temp.temp) = None)
    THEN s
    ELSE set_manual_temp(s, data.room_name, data.temp, data.force_resend,
                         data.reschedule_delay)

\* new: [opmode, temp], the attributes of the thermostat's new state
\* variant: an 'off' report is ignored only while a window is open
thermostat_state_cb_takes_off(s, room_name, entity, new, no_reschedule) ==
    LET cur == s.current_temps[room_name]
        ignored_off ==
            /\ new.opmode = "Off"
            /\ get_open_windows(s, room_name) # {}
        temp == IF new.opmode = "Off"
                THEN Off
                ELSE IF new.temp = None THEN None
                ELSE Num(new.temp.value - cfg_delta(entity))
    IN  IF new.opmode = "None" \/ ignored_off \/ temp = None \/ temp = cur
        THEN s
        ELSE LET s1 == IF /\ Len(ThermostatList(room_name)) > 1
                          /\ cfg_replicate_changes(room_name)
                          /\ master_switch_enabled(s)
                       THEN set_temp(s, room_name, temp, FALSE)
                       ELSE [s EXCEPT !.current_temps[room_name] = temp]
             IN  IF no_reschedule
                 THEN s1
                 ELSE update_reschedule_timer(s1, room_name, None, FALSE)

thermostat_state_cb(s, room_name, entity, new, no_reschedule) ==
    LET cur == s.current_temps[room_name]
        ignored_off ==
            /\ new.opmode = "Off"
            /\ \/ /\ IsNumber(cur)
                  /\ IsNumber(cfg_min_temp(entity))
                  /\ cur.value + cfg_delta(entity) < cfg_min_temp(entity).value
               \/ get_open_windows(s, room_name) # {}
        temp == IF new.opmode = "Off"
                THEN Off
                ELSE IF new.temp = None THEN None
                ELSE Num(new.temp.value - cfg_delta(entity))
    IN  IF new.opmode = "None" \/ ignored_off \/ temp = None \/ temp = cur
        THEN s
        ELSE LET s1 == IF /\ Len(ThermostatList(room_name)) > 1
                          /\ cfg_replicate_changes(room_name)
                          /\ master_switch_enabled(s)
                       THEN set_temp(s, room_name, temp, FALSE)
                       ELSE [s EXCEPT !.current_temps[room_name] = temp]
             IN  IF no_reschedule
                 THEN s1
                 ELSE update_reschedule_timer(s1, room_name, None, FALSE)

\* self.turn_on(schedule_switch): the entity turns on and the host queues
\* the state listener's callback
turn_on(s, room_name) ==
    [s EXCEPT !.schedule_switch[room_name] = TRUE,
              !.queue = @ \cup {[cb |-> "schedule_switch_cb",
                                 room_name |-> room_name,
                                 handle |-> NoHandle]}]

\* variant: the off temperature is set the way a scheduled temperature is
master_switch_room_scheduled(s, room_name, new) ==
    IF new
    THEN IF /\ cfg_schedule_switch(room_name)
            /\ cfg_master_controls_schedule_switches
            /\ ~schedule_switch_enabled(s, room_name)
         THEN turn_on(s, room_name)
         ELSE set_scheduled_temp(s, room_name, FALSE)
    ELSE set_temp(cancel_reschedule_timer(s, room_name), room_name,
                  cfg_off_temp, TRUE)

master_switch_room(s, room_name, new) ==
    IF new
    THEN IF /\ cfg_schedule_switch(room_name)
            /\ cfg_master_controls_schedule_switches
            /\ ~schedule_switch_enabled(s, room_name)
         THEN turn_on(s, room_name)
         ELSE set_scheduled_temp(s, room_name, FALSE)
    ELSE set_temp(cancel_reschedule_timer(s, room_name), room_name,
                  cfg_off_temp, FALSE)

RECURSIVE master_switch_rooms(_, _, _)
master_switch_rooms(s, new, i) ==
    IF i > Len(s.rooms)
    THEN s
    ELSE master_switch_rooms(master_switch_room(s, s.rooms[i], new),
                             new, i + 1)

master_switch_cb(s, new) == master_switch_rooms(s, new, 1)

\* variant: a switch turned off leaves the re-schedule timer alone
schedule_switch_cb_keeps_timer(s, room_name, new) ==
    IF ~master_switch_enabled(s)
    THEN s
    ELSE IF new
    THEN set_scheduled_temp(s, room_name, FALSE)
    ELSE s

schedule_switch_cb(s, room_name, new) ==
    IF ~master_switch_enabled(s)
    THEN s
    ELSE IF new
    THEN set_scheduled_temp(s, room_name, FALSE)
    ELSE cancel_reschedule_timer(s, room_name)

\* variant: the recorded temperature is not restored
check_for_open_window_forgets(s, room_name) ==
    IF get_open_windows(s, room_name) # {}
    THEN IF s.current_temps[room_name] # cfg_off_temp
         THEN set_temp(s, room_name, cfg_off_temp, FALSE)
         ELSE s
    ELSE s

check_for_open_window(s, room_name) ==
    IF get_open_windows(s, room_name) # {}
    THEN LET orig_temp == s.current_temps[room_name]
             s1 == IF orig_temp # cfg_off_temp
                   THEN set_temp(s, room_name, cfg_off_temp, FALSE)
                   ELSE s
         IN  [s1 EXCEPT !.current_temps[room_name] = orig_temp]
    ELSE s

\* variant: closing the last window restores the recorded temperature
window_sensor_cb_restores(s, room_name, entity, new) ==
    LET opened == new \/ cfg_inverted(entity)
    IN  IF ~master_switch_enabled(s)
        THEN s
        ELSE IF opened
        THEN check_for_open_window(s, room_name)
        ELSE IF get_open_windows(s, room_name) = {}
        THEN LET orig_temp == s.current_temps[room_name]
             IN  IF orig_temp # None
                 THEN set_temp(s, room_name, orig_temp, FALSE)
                 ELSE s
        ELSE s

window_sensor_cb(s, room_name, entity, new) ==
    LET opened == new \/ cfg_inverted(entity)
    IN  IF ~master_switch_enabled(s)
        THEN s
        ELSE IF opened
        THEN check_for_open_window(s, room_name)
        ELSE IF get_open_windows(s, room_name) = {}
        THEN IF /\ schedule_switch_enabled(s, room_name)
                /\ room_name \notin DOMAIN s.reschedule_timers
             THEN set_scheduled_temp(s, room_name, TRUE)
             ELSE LET orig_temp == s.current_temps[room_name]
                  IN  IF orig_temp # None
                      THEN set_temp(s, room_name, orig_temp, FALSE)
                      ELSE s
        ELSE s

----------------------------------------------------------------------------
(* Initialization *)

\* the state every thermostat reports when the app starts
InitialThermState == [opmode |-> "Heat", temp |-> Num(21)]

\* the first thermostat of the room whose updates are not ignored
FirstListened(room_name) ==
    LET idx == {i \in 1..Len(ThermostatList(room_name)) :
                  ~cfg_ignore_updates(ThermostatList(room_name)[i])}
    IN  IF idx = {} THEN <<>> ELSE <<ThermostatList(room_name)[Min(idx)]>>

fetch_initial_temp(s, room_name) ==
    LET s0 == [s EXCEPT !.current_temps = DictSet(@, room_name, None)]
        first == FirstListened(room_name)
    IN  IF first = <<>>
        THEN s0
        ELSE thermostat_state_cb(s0, room_name, first[1],
                 InitialThermState, TRUE)

set_initial_temp(s, room_name) ==
    IF get_open_windows(s, room_name) # {}
    THEN check_for_open_window(s, room_name)
    ELSE set_scheduled_temp(s, room_name, FALSE)

RECURSIVE fetch_initial_temps(_, _)
fetch_initial_temps(s, i) ==
    IF i > Len(s.rooms) THEN s
    ELSE fetch_initial_temps(fetch_initial_temp(s, s.rooms[i]), i + 1)

RECURSIVE set_initial_temps(_, _)
set_initial_temps(s, i) ==
    IF i > Len(s.rooms) THEN s
    ELSE set_initial_temps(set_initial_temp(s, s.rooms[i]), i + 1)

initialize(s) ==
    LET s1 == fetch_initial_temps(s, 1)
    IN  IF master_switch_enabled(s1)
        THEN set_initial_temps(s1, 1)
        ELSE s1

\* the Heaty object after __init__, in the environment it starts in
Constructed(room_names, m, sw, w) ==
    [rooms |-> room_names, now |-> 0, master |-> m,
     schedule_switch |->
        [r \in {x \in AllRooms : cfg_schedule_switch(x)} |-> sw],
     window |->
        [x \in UNION {WindowSensors(room_names[i]) :
                         i \in 1..Len(room_names)} |-> w],
     current_temps |-> [r \in {} |-> None],
     reschedule_timers |-> [r \in {} |-> NoHandle],
     timers |-> {}, queue |-> {},
     calls |-> <<>>]

----------------------------------------------------------------------------
(* The Schedule and Rule classes of schedule.py.  A value that may be None
   is the set of its values, empty for None. *)

\* timedeltas of schedule.py, in days
RETROSPECT == 7
REBUILD_INTERVAL == 1

\* a datetime.date: its year, month and day and its isocalendar()
Date(year, month, day, iso_year, week, weekday) ==
    [year |-> year, month |-> month, day |-> day,
     iso_year |-> iso_year, week |-> week, weekday |-> weekday]

\* the days around day 0 of the model, Monday 2018-12-31
Calendar ==
    << Date(2018, 12, 22, 2018, 51, 6), Date(2018, 12, 23, 2018, 51, 7),
       Date(2018, 12, 24, 2018, 52, 1), Date(2018, 12, 25, 2018, 52, 2),
       Date(2018, 12, 26, 2018, 52, 3), Date(2018, 12, 27, 2018, 52, 4),
       Date(2018, 12, 28, 2018, 52, 5), Date(2018, 12, 29, 2018, 52, 6),
       Date(2018, 12, 30, 2018, 52, 7), Date(2018, 12, 31, 2019, 1, 1),
       Date(2019, 1, 1, 2019, 1, 2), Date(2019, 1, 2, 2019, 1, 3),
       Date(2019, 1, 3, 2019, 1, 4) >>

\* the date of a day of the model, day 0 being the tenth of the calendar
DateOf(d) == Calendar[d + 10]

\* when.date() of a datetime
DayOf(when) == when \div DayLen

Rule(temp_expr, start_time, end_time, constraints) ==
    [temp_expr |-> temp_expr, start_time |-> start_time,
     end_time |-> end_time, constraints |-> constraints]

\* constraints: constraint name -> allowed values or None
check_constraints(rule, date) ==
    \A constraint \in DOMAIN rule.constraints :
        \A allowed_values \in rule.constraints[constraint] :
            /\ constraint = "years" => date.iso_year \in allowed_values
            /\ constraint = "months" => date.year \in allowed_values
            /\ constraint = "days" => date.day \in allowed_values
            /\ constraint = "week" => date.week \in allowed_values
            /\ constraint = "weekday" => date.weekday \in allowed_values

Schedule(rules) ==
    [rules |-> rules, _slots |-> << >>, _last_build |-> {}, found |-> << >>]

\* the slots of one date, for the rules from the i-th on
RECURSIVE SlotsOfDate(_, _, _)
SlotsOfDate(rules, current_date, i) ==
    IF i > Len(rules)
    THEN << >>
    ELSE (IF check_constraints(rules[i], DateOf(current_date))
          THEN << [start |-> DateTime(current_date, rules[i].start_time),
                   end |-> {DateTime(current_date, end_time) :
                              end_time \in rules[i].end_time},
                   rule |-> i] >>
          ELSE << >>)
         \o SlotsOfDate(rules, current_date, i + 1)

\* the while loop of _build_slots
RECURSIVE SlotsDownTo(_, _, _)
SlotsDownTo(rules, current_date, end_date) ==
    IF current_date < end_date
    THEN << >>
    ELSE SlotsOfDate(rules, current_date, 1)
         \o SlotsDownTo(rules, current_date - 1, end_date)

\* list.sort(key=start, reverse=True): stable, slots that start at the same
\* time keep their order
RECURSIVE InsertSlot(_, _)
InsertSlot(sorted, slot) ==
    IF sorted = << >>
    THEN << slot >>
    ELSE IF Head(sorted).start >= slot.start
    THEN << Head(sorted) >> \o InsertSlot(Tail(sorted), slot)
    ELSE << slot >> \o sorted

RECURSIVE SortSlots(_, _)
SortSlots(slots, n) ==
    IF n = 0 THEN << >> ELSE InsertSlot(SortSlots(slots, n - 1), slots[n])

\* variant: the slots are left in the order they were collected in
_build_slots_unsorted(self, when, force) ==
    IF /\ ~force
       /\ \E _last_build \in self._last_build :
              when - _last_build < REBUILD_INTERVAL * DayLen
    THEN self
    ELSE LET current_date == DayOf(when)
             end_date == current_date - RETROSPECT - REBUILD_INTERVAL
             slots == SlotsDownTo(self.rules, current_date, end_date)
         IN  [self EXCEPT !._slots = slots,
                          !._last_build = {when}]

\* the Schedule after _build_slots; what it returns is its _slots
_build_slots(self, when, force) ==
    IF /\ ~force
       /\ \E _last_build \in self._last_build :
              when - _last_build < REBUILD_INTERVAL * DayLen
    THEN self
    ELSE LET current_date == DayOf(when)
             end_date == current_date - RETROSPECT - REBUILD_INTERVAL
             slots == SlotsDownTo(self.rules, current_date, end_date)
         IN  [self EXCEPT !._slots = SortSlots(slots, Len(slots)),
                          !._last_build = {when}]

\* variant: a slot without an end counts as ended
get_slots_ended(self, when) ==
    LET built == _build_slots(self, when, FALSE)
    IN  [built EXCEPT !.found =
           SelectSeq(built._slots,
                     LAMBDA slot : /\ slot.start <= when
                                   /\ \E end \in slot.end : end > when)]

\* variant: slots that have ended are not sorted out
get_slots_started(self, when) ==
    LET built == _build_slots(self, when, FALSE)
    IN  [built EXCEPT !.found =
           SelectSeq(built._slots, LAMBDA slot : slot.start <= when)]

\* the Schedule after get_slots, found being the slots returned
get_slots(self, when) ==
    LET built == _build_slots(self, when, FALSE)
    IN  [built EXCEPT !.found =
           SelectSeq(built._slots,
                     LAMBDA slot : /\ slot.start <= when
                                   /\ \A end \in slot.end : end > when)]

----------------------------------------------------------------------------
(* The Temp class of expr.py.  A Temp holds Off or a number; a plain Python
   number is a Num, any other object a NoNumber. *)

NoNumber == [kind |-> "str", value |-> 0]

\* Temp.parse_temp of a number, of "off" or of another object
Temp_parse_temp(value) ==
    IF value.kind \in {"num", "off"} THEN value ELSE None

\* Temp(value); Raises stands for the ValueError of the constructor
Temp(value) ==
    LET copied == IF value.kind = "Temp" THEN value.value ELSE value
        parsed == Temp_parse_temp(copied)
    IN  IF parsed = None THEN Raises
        ELSE [kind |-> "Temp", value |-> parsed]

is_off(self) == self.value = Off

\* the (float, int) instances
IsFloatOrInt(other) == other.kind = "num"

\* variant: the sum of two numbers keeps the left one
__add___left(self, other) ==
    IF IsFloatOrInt(other) /\ other.value = 0
    THEN Temp(self.value)
    ELSE LET temp == IF IsFloatOrInt(other) THEN Temp(other) ELSE other
         IN  IF temp.kind # "Temp" THEN Raises
             ELSE IF is_off(temp) THEN Temp(Off)
             ELSE Temp(self.value)

\* self + other
__add__(self, other) ==
    IF IsFloatOrInt(other) /\ other.value = 0
    THEN Temp(self.value)
    ELSE LET temp == IF IsFloatOrInt(other) THEN Temp(other) ELSE other
         IN  IF temp.kind # "Temp" THEN Raises
             ELSE IF is_off(self) \/ is_off(temp) THEN Temp(Off)
             ELSE Temp(Num(self.value.value + temp.value.value))

\* self - other: a plain number other than 0 is negated and stays a plain
\* number
__sub__(self, other) ==
    IF IsFloatOrInt(other) /\ other.value = 0
    THEN Temp(self.value)
    ELSE LET temp == IF IsFloatOrInt(other)
                     THEN Num(other.value * (0 - 1))
                     ELSE other
         IN  IF temp.kind # "Temp" THEN Raises
             ELSE IF is_off(self) \/ is_off(temp) THEN Temp(Off)
             ELSE Temp(Num(self.value.value - temp.value.value))

\* self == other
__eq__(self, other) == other.kind = "Temp" /\ self.value = other.value

\* variant: Off is not less than a number
__lt___numbers(self, other) ==
    LET temp == IF IsFloatOrInt(other) THEN Temp(other) ELSE other
    IN  IF temp.kind # "Temp" THEN Raises
        ELSE /\ ~is_off(self) /\ ~is_off(temp)
             /\ self.value.value < temp.value.value

\* self < other; with both off, self.value < other.value compares "off"
\* with "off" and is false
__lt__(self, other) ==
    LET temp == IF IsFloatOrInt(other) THEN Temp(other) ELSE other
    IN  IF temp.kind # "Temp" THEN Raises
        ELSE IF ~is_off(self) /\ is_off(temp) THEN FALSE
        ELSE IF \/ is_off(self) /\ ~is_off(temp)
                \/ /\ ~is_off(self)
                   /\ self.value.value < temp.value.value
        THEN TRUE
        ELSE FALSE

----------------------------------------------------------------------------
(* Specification *)

\* the state a callback leaves becomes the state of the system; ev keeps
\* which callback ran, for which room, whether the room had a re-schedule
\* timer recorded when it started, and whether it was the callback of a
\* timer armed with force=True
\* new: the new state an entity's callback is handed, "None" for the others
CommitState(s, op, room_name, forced, new) ==
    /\ \A t \in s.timers : t.n <= MaxDup /\ t.when <= MaxTime
    /\ rooms' = s.rooms
    /\ now' = s.now
    /\ master' = s.master
    /\ schedule_switch' = s.schedule_switch
    /\ window' = s.window
    /\ current_temps' = s.current_temps
    /\ reschedule_timers' = s.reschedule_timers
    /\ timers' = s.timers
    /\ queue' = s.queue
    /\ calls' = s.calls
    /\ ev' = [op |-> op, room_name |-> room_name,
              pending |-> IF room_name = "None"
                          THEN DOMAIN reschedule_timers # {}
                          ELSE room_name \in DOMAIN reschedule_timers,
              forced |-> forced, new |-> new]
    /\ quiet' = quiet
    /\ schedule' = schedule
    /\ temp_op' = temp_op

Commit(s, op, room_name, forced) ==
    CommitState(s, op, room_name, forced, "None")

\* the app after initialize() in a configuration with the given rooms
Initialized(room_names) ==
    \E m \in BOOLEAN, sw \in BOOLEAN, w \in BOOLEAN :
        LET s == initialize(Constructed(room_names, m, sw, w))
        IN  /\ rooms = s.rooms
            /\ now = s.now
            /\ master = s.master
            /\ schedule_switch = s.schedule_switch
            /\ window = s.window
            /\ current_temps = s.current_temps
            /\ reschedule_timers = s.reschedule_timers
            /\ timers = s.timers
            /\ queue = s.queue
            /\ calls = s.calls
            /\ ev = [op |-> "initialize", room_name |-> "None",
                     pending |-> FALSE, forced |-> FALSE,
                     new |-> "None"]
            /\ quiet = FALSE

\* no operation on Temp objects yet
NoTempOp == [op |-> "None", self |-> None, other |-> None, result |-> None]

Init ==
    /\ Initialized(<<"r1">>)
    /\ schedule = Schedule(<< >>)
    /\ temp_op = NoTempOp

\* time passes; a due timer is dispatched and a queued callback runs first
Tick ==
    /\ now < MaxTime
    /\ \A t \in timers : t.when > now
    /\ queue = {}
    /\ Commit([Here EXCEPT !.now = @ + 1], "tick", "None", FALSE)

\* the timer service finds a timer due and hands its callback to a worker
Dispatch ==
    \E t \in timers :
        /\ t.when <= now
        /\ Commit([Here EXCEPT
                     !.timers = @ \ {t},
                     !.queue = @ \cup {[cb |-> "reschedule_timer_cb",
                                        room_name |-> t.room_name,
                                        handle |-> t]}],
                  "dispatch", t.room_name, FALSE)

RescheduleTimerFire ==
    \E q \in queue :
        /\ q.cb = "reschedule_timer_cb"
        /\ Commit(reschedule_timer_cb([Here EXCEPT !.queue = @ \ {q}],
                                      q.room_name),
                  "reschedule_timer_cb", q.room_name, q.handle.force)

ScheduleSwitchTurnedOn ==
    \E q \in queue :
        /\ q.cb = "schedule_switch_cb"
        /\ CommitState(schedule_switch_cb([Here EXCEPT !.queue = @ \ {q}],
                                          q.room_name, TRUE),
                       "schedule_switch_cb", q.room_name, FALSE, "on")

\* run_daily(schedule_cb, ...) at the start and end times of the rules
ScheduleTimes(room_name) ==
    UNION {{cfg_schedule(room_name)[i].start_time,
            cfg_schedule(room_name)[i].end_time} :
           i \in 1..Len(cfg_schedule(room_name))}

ScheduleTick ==
    \E room_name \in Rooms(Here) :
        /\ (now % DayLen) \in ScheduleTimes(room_name)
        /\ Commit(schedule_cb(Here, room_name), "schedule_cb", room_name, FALSE)

RescheduleEvent ==
    /\ ~quiet
    /\ \E data_room \in Rooms(Here) \cup {UnknownRoom, "None"} :
          Commit(reschedule_event_cb(Here, data_room),
                 "reschedule_event_cb",
                 IF data_room \in Rooms(Here) THEN data_room ELSE "None",
                 FALSE)

ManualExprs == {Lit(Num(21)), Lit(Num(23))}

EventData(room_name, temp, reschedule_delay, force_resend) ==
    [room_name |-> room_name, temp |-> temp,
     reschedule_delay |-> reschedule_delay, force_resend |-> force_resend]

\* the data of the heaty_set_temp events delivered: well-formed ones and
\* one of each kind the callback rejects
SetTempEvents ==
    {EventData(r, x, d, f) :
        r \in AllRooms, x \in ManualExprs, d \in {None, Num(1)},
        f \in BOOLEAN}
    \cup {EventData("r1", Lit(Num(0)), None, FALSE),
          EventData("r1", Dyn(TEMP_EXPR_IGNORE), None, FALSE),
          EventData("r1", Dyn(Raises), None, FALSE),
          EventData("r2", Dyn(Num(23)), None, FALSE),
          EventData("None", Lit(Num(23)), None, FALSE),
          EventData("r1", Missing, None, FALSE),
          EventData("r1", Lit(Num(23)), BadType, FALSE),
          EventData("r1", Lit(Num(23)), Num(0 - 1), FALSE),
          EventData(UnknownRoom, Lit(Num(23)), None, FALSE)}

\* the events set_temp_event_cb hands on to set_manual_temp
PassedOn(s, data) ==
    /\ data.room_name \in Rooms(s)
    /\ data.temp # Missing
    /\ data.reschedule_delay # BadType
    /\ ~(IsNumber(data.reschedule_delay) /\ data.reschedule_delay.value < 0)
    /\ \/ cfg_untrusted_temp_expressions(s)
       \/ data.temp.kind = "lit" /\ parse_temp(data.temp.temp) # None

SetTempEvent ==
    /\ ~quiet
    /\ \E data \in SetTempEvents :
          Commit(set_temp_event_cb(Here, data),
                 "set_temp_event_cb",
                 IF PassedOn(Here, data) THEN data.room_name ELSE "None",
                 FALSE)

ReportedStates ==
    {[opmode |-> "None", temp |-> None],
     [opmode |-> "Off", temp |-> None],
     [opmode |-> "Heat", temp |-> None],
     [opmode |-> "Heat", temp |-> Num(21)],
     [opmode |-> "Heat", temp |-> Num(23)]}

ThermostatState ==
    \E room_name \in Rooms(Here) :
        \E entity \in Thermostats(room_name), new \in ReportedStates :
            /\ ~quiet
            /\ ~cfg_ignore_updates(entity)
            /\ Commit(thermostat_state_cb(Here, room_name, entity, new,
                                          FALSE),
                      "thermostat_state_cb", room_name, FALSE)

MasterSwitch ==
    /\ ~quiet
    /\ cfg_master_switch
    /\ CommitState(master_switch_cb([Here EXCEPT !.master = ~master],
                                    ~master),
                   "master_switch_cb", "None", FALSE,
                   IF ~master THEN "on" ELSE "off")

ScheduleSwitch ==
    \E room_name \in SwitchRooms(Here) :
        LET new == ~schedule_switch[room_name]
        IN  ~quiet /\
            CommitState(schedule_switch_cb(
                            [Here EXCEPT !.schedule_switch[room_name] = new],
                            room_name, new),
                        "schedule_switch_cb", room_name, FALSE,
                        IF new THEN "on" ELSE "off")

WindowSensor ==
    \E room_name \in Rooms(Here) :
        \E entity \in WindowSensors(room_name) :
            LET new == ~window[entity]
            IN  ~quiet /\
                CommitState(window_sensor_cb(
                                [Here EXCEPT !.window[entity] = new],
                                room_name, entity, new),
                            "window_sensor_cb", room_name, FALSE,
                            IF new THEN "on" ELSE "off")

Next ==
    \/ Tick
    \/ Dispatch
    \/ RescheduleTimerFire
    \/ ScheduleSwitchTurnedOn
    \/ ScheduleTick
    \/ RescheduleEvent
    \/ SetTempEvent
    \/ ThermostatState
    \/ MasterSwitch
    \/ ScheduleSwitch
    \/ WindowSensor

Spec == Init /\ [][Next]_vars

\* from some moment on the environment sends no notification any more:
\* no heaty_set_temp or heaty_reschedule event, no thermostat, switch or
\* window sensor state change
GoQuiet ==
    /\ ~quiet
    /\ quiet' = TRUE
    /\ UNCHANGED <<rooms, now, master, schedule_switch, window,
                   current_temps, reschedule_timers, timers, queue, calls,
                   ev, schedule, temp_op>>

FairNext == Next \/ GoQuiet

\* a worker takes a callback handed to it: the step RescheduleTimerFire or
\* ScheduleSwitchTurnedOn makes on the queue
RunQueued == \E q \in queue : queue' = queue \ {q}

\* Time passes, the timer service dispatches the timers that are due and
\* the workers run the callbacks handed to them.
FairSpec ==
    /\ Init
    /\ [][FairNext]_vars
    /\ WF_vars(Tick)
    /\ WF_vars(Dispatch)
    /\ WF_queue(RunQueued)

----------------------------------------------------------------------------
(* The schedule on its own: a room without switches, window sensors and
   re-schedule delay, whose schedule ticks resolve the schedule as time
   passes *)

ScheduleRooms == {"r2", "r3"}

NoConstraints == [constraint \in {} |-> {}]

\* the rules of the Schedule objects looked at
Schedules ==
    { << Rule(Lit(Num(21)), 0, {}, NoConstraints),
         Rule(Lit(Num(23)), 1, {2}, NoConstraints),
         Rule(Lit(Num(19)), 1, {}, NoConstraints) >>,
      << Rule(Lit(Num(21)), 2, {1}, NoConstraints) >>,
      << Rule(Lit(Num(19)), 0, {1}, "weekday" :> {{6, 7}}),
         Rule(Lit(Num(21)), 1, {2},
              ("months" :> {{12}}) @@ ("days" :> {})),
         Rule(Lit(Num(23)), 2, {},
              ("years" :> {{2019}}) @@ ("week" :> {{1}})
                @@ ("days" :> {{1, 31}})) >> }

SchedInit ==
    /\ \E room_name \in ScheduleRooms : Initialized(<<room_name>>)
    /\ \E rules \in Schedules : schedule = Schedule(rules)
    /\ temp_op = NoTempOp

\* the room's schedule is asked for the slots of the current time
GetSlots ==
    /\ schedule' = get_slots(schedule, now)
    /\ ev' = [op |-> "get_slots", room_name |-> "None", pending |-> FALSE,
              forced |-> FALSE, new |-> "None"]
    /\ calls' = << >>
    /\ UNCHANGED <<rooms, now, master, schedule_switch, window,
                   current_temps, reschedule_timers, timers, queue, quiet,
                   temp_op>>

SchedNext ==
    \/ Tick
    \/ ScheduleTick
    \/ GetSlots

SchedSpec == SchedInit /\ [][SchedNext]_vars

----------------------------------------------------------------------------
(* Two rooms in one app: r1 with a schedule switch, a window sensor and a
   re-schedule delay, r2 without them *)

PairInit ==
    /\ Initialized(<<"r1", "r2">>)
    /\ schedule = Schedule(<< >>)
    /\ temp_op = NoTempOp

\* heaty_set_temp events for either room, with and without a delay
PairEvents ==
    {EventData(r, Lit(Num(23)), d, FALSE) :
        r \in {"r1", "r2"}, d \in {None, Num(1)}}

PairSetTempEvent ==
    \E data \in PairEvents :
        Commit(set_temp_event_cb(Here, data), "set_temp_event_cb",
               data.room_name, FALSE)

\* the notifications that are about one room, and the timer service
PairNext ==
    \/ Tick
    \/ Dispatch
    \/ RescheduleTimerFire
    \/ ScheduleTick
    \/ PairSetTempEvent
    \/ ThermostatState
    \/ ScheduleSwitch
    \/ WindowSensor

PairSpec == PairInit /\ [][PairNext]_vars

----------------------------------------------------------------------------
(* Rooms with a window sensor and a schedule that has no decision at some
   times of the day: r4 with a plain sensor, r5 with an inverted one *)

WindowRooms == {"r4", "r5"}

WindowInit ==
    /\ \E room_name \in WindowRooms : Initialized(<<room_name>>)
    /\ schedule = Schedule(<< >>)
    /\ temp_op = NoTempOp

WindowNext ==
    \/ Tick
    \/ ScheduleTick
    \/ SetTempEvent
    \/ ThermostatState
    \/ MasterSwitch
    \/ WindowSensor

WindowSpec == WindowInit /\ [][WindowNext]_vars

----------------------------------------------------------------------------
(* Schedules as the configuration layer builds them *)

\* a range string such as "1,6-7": its parts in order, <<n>> for "n" and
\* <<first, last>> for "first-last"
expand_range_string(range_string) ==
    UNION {IF Len(range_string[i]) = 2
           THEN range_string[i][1]..range_string[i][2]
           ELSE {range_string[i][1]} : i \in DOMAIN range_string}

RANGE_STRING_CONSTRAINTS == {"years", "months", "days", "weeks", "weekdays"}

\* the Rule parse_schedule builds of one rule of the config block; the
\* rules looked at have neither start nor end, so the Rule starts at
\* midnight and has no end time
parse_schedule_rule(rule) ==
    Rule(rule["temp"], 0, {},
         [name \in DOMAIN rule \cap RANGE_STRING_CONSTRAINTS |->
             {expand_range_string(rule[name])}])

parse_schedule(rules) ==
    Schedule([i \in DOMAIN rules |-> parse_schedule_rule(rules[i])])

\* the schedule config blocks looked at
ScheduleConfigs ==
    { << ("temp" :> Lit(Num(19))) @@ ("weekdays" :> << <<6, 7>> >>),
         ("temp" :> Lit(Num(21))) @@ ("months" :> << <<12>> >>)
            @@ ("days" :> << <<1>>, <<31>> >>),
         ("temp" :> Lit(Num(23))) >>,
      << ("temp" :> Lit(Num(21))) @@ ("years" :> << <<2019>> >>)
            @@ ("weeks" :> << <<2, 3>> >>),
         ("temp" :> Lit(Num(19))) @@ ("days" :> << <<1, 2>>, <<31>> >>) >> }

ConfigInit ==
    /\ \E room_name \in ScheduleRooms : Initialized(<<room_name>>)
    /\ \E rules \in ScheduleConfigs : schedule = parse_schedule(rules)
    /\ temp_op = NoTempOp

ConfigSpec == ConfigInit /\ [][SchedNext]_vars

----------------------------------------------------------------------------
(* Temp objects on their own: expressions add, subtract and compare them *)

\* the Temp objects: Off and the numbers up to MaxValue, below and above 0
Temps == {Temp(Off)} \cup {Temp(Num(v)) : v \in (0 - MaxValue)..MaxValue}

\* the right operands: Temp objects, plain numbers and another object
Operands == Temps \cup {Num(v) : v \in (0 - 1)..MaxValue} \cup {NoNumber}

TempOp(op, self, other, result) ==
    /\ temp_op' = [op |-> op, self |-> self, other |-> other,
                    result |-> result]
    /\ UNCHANGED <<rooms, now, master, schedule_switch, window,
                   current_temps, reschedule_timers, timers, queue, calls,
                   ev, quiet, schedule>>

TempAdd ==
    \E self \in Temps, other \in Operands :
        TempOp("__add__", self, other, __add__(self, other))

TempSub ==
    \E self \in Temps, other \in Operands :
        TempOp("__sub__", self, other, __sub__(self, other))

TempEq ==
    \E self \in Temps, other \in Operands :
        TempOp("__eq__", self, other, __eq__(self, other))

TempLt ==
    \E self \in Temps, other \in Operands :
        TempOp("__lt__", self, other, __lt__(self, other))

TempNext ==
    \/ TempAdd
    \/ TempSub
    \/ TempEq
    \/ TempLt

TempSpec == Init /\ [][TempNext]_vars

----------------------------------------------------------------------------
(* heaty_set_temp events on their own, for apps that accept temperature
   expressions in events and apps that do not *)

EventInit ==
    /\ \E room_name \in AllRooms : Initialized(<<room_name>>)
    /\ schedule = Schedule(<< >>)
    /\ temp_op = NoTempOp

EventNext ==
    \/ Tick
    \/ ScheduleTick
    \/ SetTempEvent

EventSpec == EventInit /\ [][EventNext]_vars

----------------------------------------------------------------------------
(* The app with a timer service that can fail to arm a timer *)

\* update_reschedule_timer is called for a room and run_at raises
RunAtRaises ==
    \E room_name \in Rooms(Here) :
        \E reschedule_delay \in {None, Num(1)}, force \in BOOLEAN :
            /\ ~quiet
            /\ ReachesRunAt(Here, room_name, reschedule_delay, force)
            /\ CommitState(update_reschedule_timer_run_at_raises(
                               Here, room_name, reschedule_delay, force),
                           "update_reschedule_timer", room_name, force,
                           "raised")

FailNext == Next \/ RunAtRaises

FailSpec == Init /\ [][FailNext]_vars

----------------------------------------------------------------------------
(* Vocabulary of the properties *)

\* the state a step leads to
After ==
    [rooms |-> rooms', now |-> now', master |-> master',
     schedule_switch |-> schedule_switch', window |-> window',
     current_temps |-> current_temps',
     reschedule_timers |-> reschedule_timers', timers |-> timers',
     queue |-> queue', calls |-> calls']

\* the room is Pending: it has a re-schedule timer recorded
Pending(room_name) == room_name \in DOMAIN reschedule_timers

\* the handle recorded for a room, as a set
Recorded(s, room_name) ==
    IF room_name \in DOMAIN s.reschedule_timers
    THEN {s.reschedule_timers[room_name]}
    ELSE {}

\* the timers of a room that are armed in the timer service
LiveTimers(room_name) == {t \in timers : t.room_name = room_name}

SwitchesOn(s, room_name) ==
    master_switch_enabled(s) /\ schedule_switch_enabled(s, room_name)

\* the schedule may be applied to the room
Ungated(s, room_name) ==
    SwitchesOn(s, room_name) /\ get_open_windows(s, room_name) = {}

\* the delay update_reschedule_timer works with
EffectiveDelay(room_name, reschedule_delay) ==
    IF reschedule_delay = None
    THEN cfg_reschedule_delay(room_name)
    ELSE reschedule_delay.value

\* the heaty_set_temp events that reach set_manual_temp
ManualCalls == {data \in SetTempEvents : PassedOn(Here, data)}

\* set_manual_temp applies the temperature: it neither returns early nor
\* ignores the expression
ManualApplied(s, data) ==
    /\ master_switch_enabled(s)
    /\ get_open_windows(s, data.room_name) = {}
    /\ eval_temp_expr(s, data.temp) \notin {None, TEMP_EXPR_IGNORE}

setManual(s, data) ==
    set_manual_temp(s, data.room_name, data.temp, data.force_resend,
                    data.reschedule_delay)

\* the temperature a thermostat's new state reports for the room
ReportedTemp(entity, new) ==
    IF new.opmode = "Off" THEN Off
    ELSE IF new.temp = None THEN None
    ELSE Num(new.temp.value - cfg_delta(entity))

\* thermostat_state_cb takes the report for a changed room temperature
ReportApplied(s, room_name, entity, new) ==
    /\ thermostat_state_cb(s, room_name, entity, new, TRUE) # s
    /\ thermostat_state_cb(s, room_name, entity, new, TRUE)
          .current_temps[room_name] = ReportedTemp(entity, new)

\* the state after a manual change that arms: the room's recorded timer is
\* armed and due after delay, it replaces the timer recorded before, and no
\* other timer is armed or cancelled
ArmedBy(s, room_name, delay) ==
    /\ room_name \in DOMAIN s.reschedule_timers
    /\ s.reschedule_timers[room_name] \in s.timers
    /\ s.reschedule_timers[room_name].when = now + delay
    /\ s.reschedule_timers[room_name].room_name = room_name
    /\ s.timers = (timers \ Recorded(Here, room_name))
                    \cup Recorded(s, room_name)

\* the state after a manual change that does not arm: the room has no
\* timer recorded, the timer recorded before is cancelled and no timer
\* is armed
Disarmed(s, room_name) ==
    /\ room_name \notin DOMAIN s.reschedule_timers
    /\ s.timers = timers \ Recorded(Here, room_name)

----------------------------------------------------------------------------
(* Schedule ticks and timer fires *)

\* C1: a schedule tick for a room that has a re-schedule timer recorded
\* changes neither the room's recorded temperature nor the timer and sends
\* nothing; a tick for a room without one resolves the schedule and, the
\* switches being on and no window open, records the resolved temperature
\* and sends it to the thermostats unless it is the recorded one already.
C1_ScheduleTick ==
    [][ev'.op = "schedule_cb" =>
        LET room_name == ev'.room_name
            temp == get_scheduled_temp(Here, room_name)
        IN  IF Pending(room_name)
            THEN /\ current_temps' = current_temps
                 /\ calls' = <<>>
                 /\ timers' = timers
                 /\ reschedule_timers' = reschedule_timers
            ELSE (Ungated(Here, room_name) /\ temp # None) =>
                    /\ current_temps'[room_name] = temp
                    /\ calls' = IF current_temps[room_name] = temp
                                THEN <<>>
                                ELSE AllServiceCalls(room_name, temp, 1)
                    /\ timers' = timers
                    /\ reschedule_timers' = reschedule_timers]_vars

\* C1, its case: a tick was suppressed although the schedule resolves to
\* another temperature than the recorded one and nothing gates it
C1_Witness ==
    /\ ev.op = "schedule_cb"
    /\ Pending(ev.room_name)
    /\ reschedule_timers[ev.room_name] \in timers
    /\ Ungated(Here, ev.room_name)
    /\ get_scheduled_temp(Here, ev.room_name) # None
    /\ current_temps[ev.room_name] # get_scheduled_temp(Here, ev.room_name)

\* C2: when a room's re-schedule timer fires, the room's handle is cleared
\* and the schedule is resolved at the current time; the switches being on
\* and no window open, the resolved temperature becomes the recorded one
\* and is sent unless it was recorded already.  With 23 set manually and a
\* schedule of 21 the room is at 21 after the fire.
C2_TimerFire ==
    [][ev'.op = "reschedule_timer_cb" =>
        LET room_name == ev'.room_name
            temp == get_scheduled_temp(Here, room_name)
        IN  /\ room_name \notin DOMAIN reschedule_timers'
            /\ timers' = timers
            /\ (Ungated(Here, room_name) /\ temp # None) =>
                    /\ current_temps'[room_name] = temp
                    /\ calls' = IF current_temps[room_name] = temp
                                THEN <<>>
                                ELSE AllServiceCalls(room_name, temp, 1)
            /\ (/\ Ungated(Here, room_name)
                /\ current_temps[room_name] = Num(23)
                /\ temp = Num(21)) =>
                    current_temps'[room_name] = Num(21)]_vars

\* C2, its case: the timer of a manual change fired and the room went back
\* to the 21 of its schedule
C2_Witness ==
    /\ ev.op = "reschedule_timer_cb"
    /\ ev.pending
    /\ ~ev.forced
    /\ ~Pending(ev.room_name)
    /\ current_temps[ev.room_name] = Num(21)
    /\ calls = AllServiceCalls(ev.room_name, Num(21), 1)

----------------------------------------------------------------------------
(* Manual changes *)

C4_EqualChangeArmsNothing ==
    /\ \A room_name \in Rooms(Here) :
          \A reschedule_delay \in {None, Num(1), Num(2)} :
              current_temps[room_name] = get_scheduled_temp(Here, room_name)
              => Disarmed(update_reschedule_timer(Here, room_name,
                                                  reschedule_delay, FALSE),
                          room_name)
    /\ \A data \in ManualCalls :
          (/\ ManualApplied(Here, data)
           /\ eval_temp_expr(Here, data.temp)
                 = get_scheduled_temp(Here, data.room_name)) =>
              Disarmed(setManual(Here, data), data.room_name)
    /\ \A room_name \in Rooms(Here) :
          \A entity \in Thermostats(room_name), new \in ReportedStates :
              (/\ ReportApplied(Here, room_name, entity, new)
               /\ ReportedTemp(entity, new)
                     = get_scheduled_temp(Here, room_name)) =>
                  Disarmed(thermostat_state_cb(Here, room_name, entity, new,
                                               FALSE),
                           room_name)

\* C4, its case: a room with a timer was set to the scheduled temperature
\* and has no timer any more
C4_Witness ==
    /\ ev.op = "set_temp_event_cb"
    /\ ev.room_name \in Rooms(Here)
    /\ ev.pending
    /\ SwitchesOn(Here, ev.room_name)
    /\ calls # <<>>
    /\ current_temps[ev.room_name] = get_scheduled_temp(Here, ev.room_name)
    /\ ~Pending(ev.room_name)
    /\ LiveTimers(ev.room_name) = {}

\* C5: in every reachable state each room has at most one re-schedule
\* timer armed in the timer service.
C5_OneLiveTimer ==
    \A room_name \in Rooms(Here) : Cardinality(LiveTimers(room_name)) <= 1

\* C7: under any interleaving of timer fires with other events a room's
\* handle is recorded iff exactly that timer is armed, a timer counting as
\* armed until its callback has run: the recorded handle is armed, and every
\* armed timer of the room is the recorded one, so that the callback of a
\* timer that was replaced never removes the record of the newer timer.
C7_HandleIffArmed ==
    \A room_name \in Rooms(Here) :
        /\ Pending(room_name) =>
               \/ reschedule_timers[room_name] \in timers
               \/ \E q \in queue : q.handle = reschedule_timers[room_name]
        /\ LiveTimers(room_name) \subseteq Recorded(Here, room_name)

----------------------------------------------------------------------------
(* Return to the schedule *)

\* the room is Idle and at the temperature the schedule resolves to, if
\* it resolves to one
Settled(room_name) ==
    /\ ~Pending(room_name)
    /\ get_scheduled_temp(Here, room_name) # None =>
          current_temps[room_name] = get_scheduled_temp(Here, room_name)

\* C6: whenever a room has a re-schedule timer, master and schedule switch
\* are on, no window is open and no further manual change, switch, window
\* or re-schedule notification arrives, the room is eventually Idle at the
\* temperature the schedule resolves to.
C6_BackToSchedule ==
    \A room_name \in AllRooms :
        (/\ quiet
         /\ room_name \in Rooms(Here)
         /\ Pending(room_name)
         /\ Ungated(Here, room_name))
        ~> (room_name \in Rooms(Here) /\ Settled(room_name))

\* C6, its case: the timer of a manual change has fired, the scheduled
\* temperature differed and was sent
C6_Witness ==
    /\ quiet
    /\ ev.op = "reschedule_timer_cb"
    /\ ev.pending
    /\ ~ev.forced
    /\ Ungated(Here, ev.room_name)
    /\ calls # <<>>
    /\ Settled(ev.room_name)
    /\ LiveTimers(ev.room_name) = {}

----------------------------------------------------------------------------
(* Manual change notifications *)

\* C8 as claimed: every set_manual_temp cancels the timer recorded for the
\* room before it decides anything, so it leaves what it would have left
\* had the timer been cancelled beforehand, in every state.
C8_AlwaysCancelsFirst ==
    \A data \in ManualCalls :
        setManual(Here, data)
          = setManual(cancel_reschedule_timer(Here, data.room_name), data)

\* C8: a set_manual_temp that applies its temperature (master switch on, no
\* window open, the expression yields a temperature) cancels the timer
\* recorded for the room before it decides whether to arm a new one: the
\* room is left without a timer or with the one this call armed.  A call
\* that returns early changes nothing and the recorded timer stays armed.
C8_AppliedCancelsFirst ==
    \A data \in ManualCalls :
        IF ManualApplied(Here, data)
        THEN /\ setManual(Here, data)
                  = setManual(cancel_reschedule_timer(Here, data.room_name),
                              data)
             /\ \/ Disarmed(setManual(Here, data), data.room_name)
                \/ ArmedBy(setManual(Here, data), data.room_name,
                           EffectiveDelay(data.room_name,
                                          data.reschedule_delay))
        ELSE setManual(Here, data) = Here

\* C8, its case: a manual change arrived for a room with a timer while a
\* window was open, and the timer is armed as before
C8_Witness ==
    /\ ev.op = "set_temp_event_cb"
    /\ ev.room_name \in Rooms(Here)
    /\ ev.pending
    /\ master_switch_enabled(Here)
    /\ get_open_windows(Here, ev.room_name) # {}
    /\ Pending(ev.room_name)
    /\ reschedule_timers[ev.room_name] \in timers
    /\ calls = <<>>

----------------------------------------------------------------------------
(* The heaty_reschedule event *)

\* C9 as claimed: a heaty_reschedule event for a room whose switches are on
\* leaves the room Idle, the schedule applied.
C9_IdleOnReturn ==
    [][(/\ ev'.op = "reschedule_event_cb"
        /\ ev'.room_name \in Rooms(Here)
        /\ SwitchesOn(Here, ev'.room_name)) =>
           LET room_name == ev'.room_name
               temp == get_scheduled_temp(Here, room_name)
           IN  /\ room_name \notin DOMAIN reschedule_timers'
               /\ (get_open_windows(Here, room_name) = {} /\ temp # None)
                     => current_temps'[room_name] = temp]_vars

\* C9: a heaty_reschedule event for a room whose master and schedule switch
\* are on cancels the timer recorded for the room and arms a forced one due
\* 0.1 minutes later: the room is Pending when the handler returns, and the
\* handler neither sends nor records a temperature.
C9_RearmsShortTimer ==
    [][(/\ ev'.op = "reschedule_event_cb"
        /\ ev'.room_name \in Rooms(Here)
        /\ SwitchesOn(Here, ev'.room_name)) =>
           /\ ArmedBy(After, ev'.room_name, ForceDelay)
           /\ reschedule_timers'[ev'.room_name].force
           /\ current_temps' = current_temps
           /\ calls' = <<>>]_vars

\* C9, its case: the event came for a room with a timer and a temperature
\* other than the scheduled one, and left the short timer
C9_Witness ==
    /\ ev.op = "reschedule_event_cb"
    /\ ev.room_name \in Rooms(Here)
    /\ ev.pending
    /\ Ungated(Here, ev.room_name)
    /\ get_scheduled_temp(Here, ev.room_name) # None
    /\ current_temps[ev.room_name] # get_scheduled_temp(Here, ev.room_name)
    /\ Pending(ev.room_name)
    /\ LiveTimers(ev.room_name) = {reschedule_timers[ev.room_name]}
    /\ reschedule_timers[ev.room_name].when = now + ForceDelay

\* C10 as claimed: when the timer of a heaty_reschedule event fires, the
\* scheduled temperature is sent to the thermostats, changed or not.
C10_ForcedResends ==
    [][(/\ ev'.op = "reschedule_timer_cb"
        /\ ev'.forced
        /\ Ungated(Here, ev'.room_name)
        /\ get_scheduled_temp(Here, ev'.room_name) # None) =>
           calls' = AllServiceCalls(ev'.room_name,
                        get_scheduled_temp(Here, ev'.room_name), 1)]_vars

\* C10: force makes the heaty_reschedule event arm its timer although the
\* room's temperature equals the scheduled one; when that timer fires the
\* scheduled temperature is sent only if it differs from the recorded one.
C10_ForceArmsOnly ==
    [][/\ (/\ ev'.op = "reschedule_event_cb"
           /\ ev'.room_name \in Rooms(Here)
           /\ SwitchesOn(Here, ev'.room_name)
           /\ current_temps[ev'.room_name]
                 = get_scheduled_temp(Here, ev'.room_name)) =>
              /\ ev'.room_name \in DOMAIN reschedule_timers'
              /\ reschedule_timers'[ev'.room_name] \in timers'
       /\ (/\ ev'.op = "reschedule_timer_cb"
           /\ ev'.forced
           /\ Ungated(Here, ev'.room_name)
           /\ get_scheduled_temp(Here, ev'.room_name) # None) =>
              calls' = IF current_temps[ev'.room_name]
                          = get_scheduled_temp(Here, ev'.room_name)
                       THEN <<>>
                       ELSE AllServiceCalls(ev'.room_name,
                                get_scheduled_temp(Here, ev'.room_name), 1)
      ]_vars

\* C10, its case: a forced timer fired in a room at its scheduled
\* temperature and nothing was sent
C10_Witness ==
    /\ ev.op = "reschedule_timer_cb"
    /\ ev.forced
    /\ ev.pending
    /\ Ungated(Here, ev.room_name)
    /\ ~Pending(ev.room_name)
    /\ current_temps[ev.room_name] = get_scheduled_temp(Here, ev.room_name)
    /\ calls = <<>>

----------------------------------------------------------------------------
(* The master and schedule switches *)

\* a service call of the step sets the thermostat the way set_temp does for
\* the temperature
SentTo(therm_name, target_temp) ==
    \E i \in 1..Len(calls') :
        /\ calls'[i].entity_id = therm_name
        /\ calls'[i].service = "opmode"
        /\ calls'[i].opmode = ThermCommand(therm_name, target_temp).opmode

\* C11: when the master switch is turned off, afterwards no room has a
\* re-schedule timer recorded, the recorded timers are cancelled, and every
\* room's recorded temperature is off_temp, sent to each of its thermostats
\* whether the room's schedule switch is on or off.
C11_MasterOff ==
    [][(ev'.op = "master_switch_cb" /\ ev'.new = "off") =>
          /\ DOMAIN reschedule_timers' = {}
          /\ timers' = timers \ UNION {Recorded(Here, r) : r \in Rooms(Here)}
          /\ \A r \in Rooms(Here) :
                /\ current_temps'[r] = cfg_off_temp
                /\ \A t \in Thermostats(r) : SentTo(t, cfg_off_temp)]_vars

\* C11, its case: the master switch was turned off while a room had a timer
C11_Witness ==
    /\ ev.op = "master_switch_cb"
    /\ ev.new = "off"
    /\ ev.pending
    /\ ~master
    /\ DOMAIN reschedule_timers = {}
    /\ \A r \in Rooms(Here) : current_temps[r] = cfg_off_temp
    /\ calls # <<>>

\* C12: a toggle of a room's schedule switch with the master switch on: turned
\* on, the scheduled temperature is applied to the room the way
\* set_scheduled_temp applies it, and where nothing keeps the schedule from
\* the room its recorded temperature is the scheduled one afterwards; turned
\* off, the timer recorded for the room is cancelled and the room is Idle,
\* nothing else changes.  With the master switch off nothing changes.
C12_ScheduleSwitch ==
    [][(ev'.op = "schedule_switch_cb") =>
          LET r == ev'.room_name
              before == [Here EXCEPT !.schedule_switch = schedule_switch',
                                     !.queue = queue']
              temp == get_scheduled_temp(before, r)
          IN  IF ~master_switch_enabled(before)
              THEN After = before
              ELSE IF ev'.new = "on"
              THEN /\ After = set_scheduled_temp(before, r, FALSE)
                   /\ (Ungated(before, r) /\ ~Pending(r) /\ temp # None)
                         => /\ current_temps'[r] = temp
                            /\ current_temps[r] # temp
                                  => \A t \in Thermostats(r) : SentTo(t, temp)
              ELSE /\ r \notin DOMAIN reschedule_timers'
                   /\ timers' = timers \ Recorded(Here, r)
                   /\ current_temps' = current_temps
                   /\ calls' = <<>>]_vars

\* C12, its case: the schedule switch of a room with a timer was turned off
\* with the master switch on
C12_Witness ==
    /\ ev.op = "schedule_switch_cb"
    /\ ev.new = "off"
    /\ ev.pending
    /\ master
    /\ ~Pending(ev.room_name)
    /\ LiveTimers(ev.room_name) = {}

\* C13: set_scheduled_temp changes nothing, neither the recorded temperature
\* nor the thermostat commands nor the timers, whenever the master switch is
\* off, the room's schedule switch is off, a re-schedule timer is recorded for
\* the room or a window of the room is open.
C13_GatedChangesNothing ==
    \A r \in Rooms(Here), force_resend \in BOOLEAN :
        (\/ ~master_switch_enabled(Here)
         \/ ~schedule_switch_enabled(Here, r)
         \/ Pending(r)
         \/ get_open_windows(Here, r) # {})
        => set_scheduled_temp(Here, r, force_resend) = Here

\* C13, its case: a schedule tick came with a window open, switches on and no
\* timer, for a room that is not at its scheduled temperature, and sent
\* nothing
C13_Witness ==
    /\ ev.op = "schedule_cb"
    /\ ev.room_name \in Rooms(Here)
    /\ ~ev.pending
    /\ SwitchesOn(Here, ev.room_name)
    /\ get_open_windows(Here, ev.room_name) # {}
    /\ get_scheduled_temp(Here, ev.room_name)
          \notin {None, current_temps[ev.room_name]}
    /\ calls = <<>>

----------------------------------------------------------------------------
(* Schedule resolution *)

\* what the expressions of the rules matching now evaluate to, in the order
\* get_scheduled_temp goes through them
Outcomes(room_name) ==
    LET rules == get_matching_rules(room_name, now)
    IN  [i \in 1..Len(rules) |-> PyEval(Here, rules[i].temp_expr)]

IsTemp(x) == x.kind \in {"num", "off"}

RECURSIVE SumOfAdds(_, _)
SumOfAdds(outs, k) ==
    IF k = 0 THEN 0 ELSE outs[k].value + SumOfAdds(outs, k - 1)

\* C14: when the expression of a matching rule evaluates to Break (every
\* rule before it having been skipped or being an Add), resolution yields no
\* decision, whatever the later matching rules evaluate to.
C14_BreakStops ==
    \A r \in Rooms(Here) :
        LET outs == Outcomes(r)
        IN  \A k \in DOMAIN outs :
                (/\ outs[k] = Break
                 /\ \A j \in 1..(k - 1) : outs[j].kind \in {"ignore", "add"})
                => get_scheduled_temp(Here, r) = None

\* C15: an Ignore outcome makes resolution fall through to the next matching
\* rule: the first outcome after a run of Ignores, when it is a temperature,
\* is the decision; when every matching rule yields Ignore, or no rule
\* matches, there is no decision.
C15_IgnoreFallsThrough ==
    \A r \in Rooms(Here) :
        LET outs == Outcomes(r)
        IN  /\ \A k \in DOMAIN outs :
                  (/\ IsTemp(outs[k])
                   /\ \A j \in 1..(k - 1) : outs[j] = TEMP_EXPR_IGNORE)
                  => get_scheduled_temp(Here, r) = outs[k]
            /\ (\A k \in DOMAIN outs : outs[k] = TEMP_EXPR_IGNORE)
                  => get_scheduled_temp(Here, r) = None

\* C15, its case: a schedule tick found an Ignore first and applied the
\* temperature of the rule after it
C15_Witness ==
    /\ ev.op = "schedule_cb"
    /\ ev.room_name \in Rooms(Here)
    /\ Len(Outcomes(ev.room_name)) > 1
    /\ Outcomes(ev.room_name)[1] = TEMP_EXPR_IGNORE
    /\ IsTemp(Outcomes(ev.room_name)[2])
    /\ current_temps[ev.room_name] = Outcomes(ev.room_name)[2]
    /\ calls # <<>>

\* C16: Add outcomes chain onto the next concrete outcome: when the matching
\* rules yield Add(a1) .. Add(ak) and then the temperature b, the decision
\* is b + a1 + .. + ak, and Off when b is Off.
C16_AddChains ==
    \A r \in Rooms(Here) :
        LET outs == Outcomes(r)
        IN  \A k \in DOMAIN outs :
                (/\ IsTemp(outs[k])
                 /\ \A j \in 1..(k - 1) : outs[j].kind = "add")
                => get_scheduled_temp(Here, r)
                     = IF outs[k] = Off THEN Off
                       ELSE Num(outs[k].value + SumOfAdds(outs, k - 1))

\* the expression raised while it was evaluated, or what it returned is
\* neither a temperature nor Ignore
Failed(outcome) ==
    \/ outcome = Raises
    \/ outcome # TEMP_EXPR_IGNORE /\ ~IsTemp(outcome)

\* C24: a matching rule whose expression raises, or returns something that
\* is no valid temperature, gives nothing and is passed over like an Ignore:
\* the first temperature after a run of such rules and Ignores is the
\* decision, and there is no decision when no other rule matches.
C24_FailedRuleIsSkipped ==
    \A r \in Rooms(Here) :
        LET rules == get_matching_rules(r, now)
            outs == Outcomes(r)
            temp(i) == eval_temp_expr(Here, rules[i].temp_expr)
        IN  /\ \A k \in DOMAIN outs : Failed(outs[k]) => temp(k) = None
            /\ \A k \in DOMAIN outs :
                  (/\ temp(k) \notin {None, TEMP_EXPR_IGNORE}
                   /\ \A j \in 1..(k - 1) :
                         Failed(outs[j]) \/ outs[j] = TEMP_EXPR_IGNORE)
                  => get_scheduled_temp(Here, r) = temp(k)
            /\ (\A k \in DOMAIN outs : Failed(outs[k]))
                  => get_scheduled_temp(Here, r) = None

\* C24, its case: at a schedule tick the first matching rule raised, and the
\* temperature of the rule after it was sent to the thermostats
C24_Witness ==
    /\ ev.op = "schedule_cb"
    /\ ev.room_name \in Rooms(Here)
    /\ Len(Outcomes(ev.room_name)) > 1
    /\ Outcomes(ev.room_name)[1] = Raises
    /\ IsTemp(Outcomes(ev.room_name)[2])
    /\ current_temps[ev.room_name] = Outcomes(ev.room_name)[2]
    /\ calls # <<>>

\* C25: when resolution yields no decision, set_scheduled_temp changes
\* nothing: the recorded temperature stays, no command goes to a thermostat
\* and nothing fails, with or without force_resend.
C25_NoDecisionChangesNothing ==
    \A r \in Rooms(Here), force_resend \in BOOLEAN :
        get_scheduled_temp(Here, r) = None
        => /\ set_scheduled_temp(Here, r, force_resend) = Here
           /\ set_scheduled_temp(Here, r, force_resend).calls = <<>>
           /\ (ev.op = "schedule_cb" /\ ev.room_name = r) => calls = <<>>

\* C25, its case: a schedule tick of a room with a recorded temperature,
\* switches on, windows closed and no timer found no decision and sent
\* nothing
C25_Witness ==
    /\ ev.op = "schedule_cb"
    /\ ev.room_name \in Rooms(Here)
    /\ ~ev.pending
    /\ Ungated(Here, ev.room_name)
    /\ get_scheduled_temp(Here, ev.room_name) = None
    /\ IsTemp(current_temps[ev.room_name])
    /\ calls = <<>>

----------------------------------------------------------------------------
(* The slots of a Schedule *)

\* the schedule was asked for the slots of the current time last
Queried == ev.op = "get_slots"

\* the rule is active at now through the instance anchored at day d
ActiveFrom(rule, d) ==
    /\ check_constraints(rule, DateOf(d))
    /\ DateTime(d, rule.start_time) <= now
    /\ \A end_time \in rule.end_time : DateTime(d, end_time) > now

\* the days the slots built last are anchored at
BuiltDays ==
    UNION {(DayOf(when) - RETROSPECT - REBUILD_INTERVAL)..DayOf(when) :
             when \in schedule._last_build}

\* C17 as claimed: of the rules active at the queried time, the one declared
\* earliest comes first.
C17_DeclaredFirst ==
    Queried =>
        \A k \in DOMAIN schedule.found :
            schedule.found[1].rule <= schedule.found[k].rule

\* C17: the instances active at the queried time are returned latest start
\* first, so the rule whose window started later takes precedence; the order
\* of declaration decides only between instances that start at the same time.
C17_LatestStartFirst ==
    \A a, b \in DOMAIN schedule.found :
        a < b =>
            \/ schedule.found[a].start > schedule.found[b].start
            \/ /\ schedule.found[a].start = schedule.found[b].start
               /\ schedule.found[a].rule < schedule.found[b].rule

\* C17, its case: two rules are active, and the one declared later, whose
\* window started later, was returned first
C17_Witness ==
    /\ Queried
    /\ \E a, b \in DOMAIN schedule.found :
          /\ a < b
          /\ schedule.found[a].rule > schedule.found[b].rule
          /\ schedule.found[a].start > schedule.found[b].start
          /\ schedule.found[b].start >= DateTime(DayOf(now), 0)

\* C18 as claimed: no rule has more than one instance among the slots
\* returned.
C18_OneInstancePerRule ==
    \A a, b \in DOMAIN schedule.found :
        schedule.found[a].rule = schedule.found[b].rule => a = b

\* C18: the slots returned for a query time are the instances of the slots
\* built last that are active at that time, one for each rule and anchor day
\* on which the rule's constraints hold and whose window holds the time, so a
\* rule without end time has one for every anchor day that started; the
\* instances of one rule come most recent anchor first.
C18_RecentAnchorFirst ==
    /\ \A a, b \in DOMAIN schedule.found :
          (a < b /\ schedule.found[a].rule = schedule.found[b].rule)
          => schedule.found[a].start > schedule.found[b].start
    /\ Queried =>
          /\ \A i \in DOMAIN schedule.rules, d \in BuiltDays :
                ActiveFrom(schedule.rules[i], d)
                => \E k \in DOMAIN schedule.found :
                      /\ schedule.found[k].rule = i
                      /\ schedule.found[k].start
                            = DateTime(d, schedule.rules[i].start_time)
          /\ \A k \in DOMAIN schedule.found :
                \E d \in BuiltDays :
                    /\ ActiveFrom(schedule.rules[schedule.found[k].rule], d)
                    /\ schedule.found[k].start
                          = DateTime(d, schedule.rules[schedule.found[k].rule]
                                          .start_time)

\* C18, its case: a rule without end time was returned for two anchor days
C18_Witness ==
    /\ Queried
    /\ \E a, b \in DOMAIN schedule.found :
          /\ a < b
          /\ schedule.found[a].rule = schedule.found[b].rule
          /\ schedule.rules[schedule.found[a].rule].end_time = {}

\* C19: a rule whose end time of day is earlier than its start is active
\* from its start on day D until its end on day D + 1, D being a day its
\* constraints hold on: a query inside that interval returns the rule, a
\* query outside of it does not.
C19_OvernightRule ==
    Queried =>
        \A i \in DOMAIN schedule.rules :
            \A end_time \in schedule.rules[i].end_time :
                end_time < schedule.rules[i].start_time =>
                    ((\E D \in {DayOf(now) - 1, DayOf(now)} :
                        /\ check_constraints(schedule.rules[i], DateOf(D))
                        /\ DateTime(D, schedule.rules[i].start_time) <= now
                        /\ now < DateTime(D + 1, end_time))
                     <=> \E k \in DOMAIN schedule.found :
                            schedule.found[k].rule = i)

\* the component of a date a constraint is about
Component(date, constraint) ==
    CASE constraint = "years" -> date.iso_year
      [] constraint = "months" -> date.month
      [] constraint = "days" -> date.day
      [] constraint = "week" -> date.week
      [] constraint = "weekday" -> date.weekday

\* C20: check_constraints(date) is true iff every constraint of the rule
\* that has allowed values allows the date's component: the ISO year for
\* years, the calendar month for months, the day of the month for days, the
\* ISO week for week and the ISO weekday for weekday.
C20_CheckConstraints ==
    \A i \in DOMAIN schedule.rules :
        \A d \in (DayOf(now) - RETROSPECT - REBUILD_INTERVAL)..DayOf(now) :
            check_constraints(schedule.rules[i], DateOf(d))
            <=> \A constraint \in DOMAIN schedule.rules[i].constraints :
                    \A allowed_values
                          \in schedule.rules[i].constraints[constraint] :
                        Component(DateOf(d), constraint) \in allowed_values

\* C21: the slots get_slots returns for a time are those a freshly
\* constructed Schedule with the same rules returns for that time, whatever
\* was asked of the schedule before.
C21_FreshSchedule ==
    Queried =>
        schedule.found = get_slots(Schedule(schedule.rules), now).found

\* C22: every slot get_slots returns for a time started at or before that
\* time and has no end or an end after it, and the slots returned are in the
\* order of their starts, latest to oldest.
C22_ActiveLatestFirst ==
    /\ Queried =>
          \A k \in DOMAIN schedule.found :
              /\ schedule.found[k].start <= now
              /\ \A end \in schedule.found[k].end : end > now
    /\ \A k \in DOMAIN schedule.found :
          k > 1 => schedule.found[k - 1].start >= schedule.found[k].start

\* C22, its case: slots with and without end were returned, and slots that
\* have ended were sorted out
C22_Witness ==
    /\ Queried
    /\ \E a, b \in DOMAIN schedule.found :
          schedule.found[a].end = {} /\ schedule.found[b].end # {}
    /\ \E k \in DOMAIN schedule._slots :
          \E end \in schedule._slots[k].end : end <= now

\* C23: for every literal temperature parse_temp accepts, the number 0 and
\* "off" included, eval_temp_expr returns exactly that temperature, so the
\* literal is never skipped.
C23_LiteralIsResult ==
    \A data \in SetTempEvents :
        (/\ data.temp # Missing
         /\ data.temp.kind = "lit"
         /\ parse_temp(data.temp.temp) # None)
        => eval_temp_expr(Here, data.temp) = parse_temp(data.temp.temp)

----------------------------------------------------------------------------
(* Temp objects *)

\* C26: the comparison of Temp objects is a total order: of a < b, a == b
\* and b < a exactly one holds, a < b and b < c give a < c, Off equals Off,
\* Off is less than every number, and numbers compare by their value.
C26_TotalOrder ==
    (temp_op.op = "__lt__" /\ temp_op.other.kind = "Temp") =>
        LET a == temp_op.self
            b == temp_op.other
            lt == temp_op.result
            eq == __eq__(a, b)
            gt == __lt__(b, a)
        IN  /\ \/ lt /\ ~eq /\ ~gt
               \/ ~lt /\ eq /\ ~gt
               \/ ~lt /\ ~eq /\ gt
            /\ \A c \in Temps : (lt /\ __lt__(b, c)) => __lt__(a, c)
            /\ (is_off(a) /\ is_off(b)) => eq
            /\ (is_off(a) /\ ~is_off(b)) => lt
            /\ (~is_off(a) /\ ~is_off(b)) =>
                  /\ lt <=> a.value.value < b.value.value
                  /\ eq <=> a.value.value = b.value.value

\* C26, its case: Off was compared with a number below 0 and is less
C26_Witness ==
    /\ temp_op.op = "__lt__"
    /\ temp_op.self = Temp(Off)
    /\ temp_op.other = Temp(Num(0 - 1))
    /\ temp_op.result = TRUE

\* C27: the sum of two Temp objects does not depend on their order; it is
\* Off when one of them is Off and the Temp of the sum of their values
\* otherwise.
C27_AddCommutes ==
    (temp_op.op = "__add__" /\ temp_op.other.kind = "Temp") =>
        LET a == temp_op.self
            b == temp_op.other
        IN  /\ __eq__(temp_op.result, __add__(b, a))
            /\ (is_off(a) \/ is_off(b)) => temp_op.result = Temp(Off)
            /\ (~is_off(a) /\ ~is_off(b)) =>
                  temp_op.result = Temp(Num(a.value.value + b.value.value))

\* C27, its case: two different numbers were added, and a number to Off
C27_Witness ==
    /\ temp_op.op = "__add__"
    /\ \/ /\ temp_op.self = Temp(Num(1))
          /\ temp_op.other = Temp(Num(2))
          /\ temp_op.result = Temp(Num(3))
       \/ /\ temp_op.self = Temp(Off)
          /\ temp_op.other = Temp(Num(2))
          /\ temp_op.result = Temp(Off)

\* C28: t - n, for a Temp t and an n that is a Temp or a plain number, 0 or
\* not, is Off when one of them is Off and the Temp of t's value minus n
\* otherwise, and never an error.
C28_SubMirrorsAdd ==
    (/\ temp_op.op = "__sub__"
     /\ temp_op.other.kind = "Temp" \/ IsFloatOrInt(temp_op.other)) =>
        LET t == temp_op.self
            n == temp_op.other
            number == IF IsFloatOrInt(n) THEN n.value ELSE n.value.value
        IN  /\ temp_op.result.kind = "Temp"
            /\ temp_op.result =
                  IF is_off(t) \/ (n.kind = "Temp" /\ is_off(n))
                  THEN Temp(Off)
                  ELSE Temp(Num(t.value.value - number))

----------------------------------------------------------------------------
(* Redundant commands and open windows *)

\* the state sent the temperature to every thermostat of the room and
\* recorded it
Sent(s, room_name, temp) ==
    /\ s.calls = AllServiceCalls(room_name, temp, 1)
    /\ s.current_temps[room_name] = temp

\* the state sent nothing and records what was recorded before
NothingSent(s) ==
    /\ s.calls = <<>>
    /\ s.current_temps = current_temps

\* C29: set_scheduled_temp, having resolved a temperature for a room it may
\* be applied to, and set_manual_temp, having evaluated one, send it to the
\* thermostats and record it iff it differs from the recorded temperature or
\* force_resend is set; otherwise no command is issued and the record stays.
C29_SentIffChangedOrForced ==
    /\ \A r \in Rooms(Here), force_resend \in BOOLEAN :
          LET temp == get_scheduled_temp(Here, r)
              after == set_scheduled_temp(Here, r, force_resend)
          IN  (Ungated(Here, r) /\ ~Pending(r) /\ temp # None) =>
                  IF current_temps[r] # temp \/ force_resend
                  THEN Sent(after, r, temp)
                  ELSE NothingSent(after)
    /\ \A data \in ManualCalls :
          LET temp == eval_temp_expr(Here, data.temp)
              after == setManual(Here, data)
          IN  ManualApplied(Here, data) =>
                  IF current_temps[data.room_name] # temp
                     \/ data.force_resend
                  THEN Sent(after, data.room_name, temp)
                  ELSE NothingSent(after)

\* C29, its case: a schedule tick resolved the temperature the room has
\* recorded, for a room the schedule may be applied to, and sent nothing
C29_Witness ==
    /\ ev.op = "schedule_cb"
    /\ ev.room_name \in Rooms(Here)
    /\ ~ev.pending
    /\ Ungated(Here, ev.room_name)
    /\ get_scheduled_temp(Here, ev.room_name) = current_temps[ev.room_name]
    /\ current_temps[ev.room_name] # None
    /\ calls = <<>>

\* a window of the room is open
WindowOpen(room_name) == get_open_windows(Here, room_name) # {}

\* C30 as claimed: while a window of a room is open, the room's recorded
\* temperature keeps its value, whatever the thermostats report and whatever
\* is switched.
C30_RecordKeptWhileOpen ==
    \A r \in Rooms(Here) :
        WindowOpen(r) =>
            /\ check_for_open_window(Here, r).current_temps[r]
                  = current_temps[r]
            /\ \A entity \in Thermostats(r), new \in ReportedStates :
                  thermostat_state_cb(Here, r, entity, new, FALSE)
                      .current_temps[r] = current_temps[r]
            /\ master =>
                  master_switch_cb([Here EXCEPT !.master = FALSE], FALSE)
                      .current_temps[r] = current_temps[r]

\* C30: with a window of the room open, check_for_open_window sends off_temp
\* to the thermostats, unless off_temp is what is recorded, and leaves the
\* recorded temperature and the timers as they were; a thermostat's report
\* of being off changes nothing, neither the recorded temperature nor the
\* timer; and neither set_scheduled_temp nor a heaty_set_temp event changes
\* anything.
C30_OpenWindowKeepsRecord ==
    \A r \in Rooms(Here) :
        WindowOpen(r) =>
            /\ LET after == check_for_open_window(Here, r)
               IN  /\ after.current_temps = current_temps
                   /\ after.reschedule_timers = reschedule_timers
                   /\ after.timers = timers
                   /\ after.calls = IF current_temps[r] # cfg_off_temp
                                     THEN AllServiceCalls(r, cfg_off_temp, 1)
                                     ELSE <<>>
            /\ \A entity \in Thermostats(r), new \in ReportedStates :
                  \A no_reschedule \in BOOLEAN :
                      new.opmode = "Off" =>
                          thermostat_state_cb(Here, r, entity, new,
                                              no_reschedule) = Here
            /\ \A force_resend \in BOOLEAN :
                  set_scheduled_temp(Here, r, force_resend) = Here
            /\ \A data \in SetTempEvents :
                  data.room_name = r => set_temp_event_cb(Here, data) = Here

\* C30, its case: a window was opened in a room with a temperature
\* recorded: off_temp went to the thermostats and the record is kept
C30_Witness ==
    /\ ev.op = "window_sensor_cb"
    /\ ev.new = "on"
    /\ ev.room_name \in Rooms(Here)
    /\ WindowOpen(ev.room_name)
    /\ IsNumber(current_temps[ev.room_name])
    /\ calls = AllServiceCalls(ev.room_name, cfg_off_temp, 1)

----------------------------------------------------------------------------
(* Rejected events *)

\* C31: a heaty_set_temp event that is rejected, for a missing room_name or
\* temp, a reschedule_delay that is no number or negative, an unknown room,
\* or an expression that is no literal temperature where expressions are not
\* trusted, changes nothing: no recorded temperature, no timer, no
\* thermostat.
C31_RejectedChangesNothing ==
    \A data \in SetTempEvents :
        (\/ data.room_name = "None"
         \/ data.temp = Missing
         \/ data.reschedule_delay = BadType
         \/ IsNumber(data.reschedule_delay) /\ data.reschedule_delay.value < 0
         \/ data.room_name \notin Rooms(Here)
         \/ /\ ~cfg_untrusted_temp_expressions(Here)
            /\ data.temp.kind # "lit")
        => set_temp_event_cb(Here, data) = Here

\* C31, its case: an app that does not trust expressions has a room that a
\* delivered event with an expression for 23 would change, and the event
\* handled last was rejected
C31_Witness ==
    /\ ev.op = "set_temp_event_cb"
    /\ ev.room_name = "None"
    /\ calls = <<>>
    /\ ~cfg_untrusted_temp_expressions(Here)
    /\ \E data \in SetTempEvents :
          /\ data.room_name \in Rooms(Here)
          /\ data.temp = Dyn(Num(23))
          /\ setManual(Here, data) # Here

----------------------------------------------------------------------------
(* A failing timer service *)

\* C32: when the timer service fails while update_reschedule_timer arms a
\* timer, the error reaches the caller and the room is Idle afterwards: no
\* handle is recorded for it and no timer of the room is armed any more.
C32_FailedArmingLeavesIdle ==
    (ev.op = "update_reschedule_timer" /\ ev.new = "raised") =>
        /\ ~Pending(ev.room_name)
        /\ LiveTimers(ev.room_name) = {}

----------------------------------------------------------------------------
(* The life of a room's re-schedule timer *)

\* the callback has returned a state of the same rooms in which every room
\* is Idle or Pending with a timer of its own
Accepted(s) ==
    /\ s.rooms = rooms
    /\ DOMAIN s.reschedule_timers \subseteq Rooms(s)
    /\ \A r \in DOMAIN s.reschedule_timers :
          s.reschedule_timers[r].room_name = r

\* every notification is accepted in the current state
AllAccepted ==
    /\ \A data \in SetTempEvents : Accepted(set_temp_event_cb(Here, data))
    /\ \A data_room \in Rooms(Here) \cup {UnknownRoom, "None"} :
          Accepted(reschedule_event_cb(Here, data_room))
    /\ \A new \in BOOLEAN :
          Accepted(master_switch_cb([Here EXCEPT !.master = new], new))
    /\ \A r \in Rooms(Here) :
          /\ Accepted(schedule_cb(Here, r))
          /\ Accepted(reschedule_timer_cb(Here, r))
          /\ \A entity \in Thermostats(r), new \in ReportedStates :
                Accepted(thermostat_state_cb(Here, r, entity, new, FALSE))
          /\ \A entity \in WindowSensors(r), new \in BOOLEAN :
                Accepted(window_sensor_cb(
                             [Here EXCEPT !.window[entity] = new],
                             r, entity, new))
    /\ \A r \in SwitchRooms(Here), new \in BOOLEAN :
          Accepted(schedule_switch_cb(
                       [Here EXCEPT !.schedule_switch[r] = new], r, new))

RoomScoped ==
    {"schedule_cb", "reschedule_timer_cb", "thermostat_state_cb",
     "window_sensor_cb", "schedule_switch_cb", "set_temp_event_cb"}

\* C34: a schedule tick, timer fire, thermostat change, window change,
\* schedule-switch change or set_temp event of one room changes neither the
\* recorded temperature, nor the recorded timer, nor the armed timers of
\* another room.
C34_OtherRoomsUntouched ==
    [][ev'.op \in RoomScoped /\ ev'.room_name # "None"
        => \A B \in Rooms(Here) \ {ev'.room_name} :
              /\ current_temps'[B] = current_temps[B]
              /\ Pending(B)' = Pending(B)
              /\ (Pending(B) => reschedule_timers'[B] = reschedule_timers[B])
              /\ LiveTimers(B)' = LiveTimers(B)]_vars

\* a notification of one room has changed that room's temperature or timer
\* while the other room has a temperature and a pending timer of its own
C34_Witness ==
    /\ ev.op \in RoomScoped
    /\ ev.room_name \in Rooms(Here)
    /\ calls # << >>
    /\ \E B \in Rooms(Here) \ {ev.room_name} :
          /\ Pending(B)
          /\ LiveTimers(B) # {}
          /\ current_temps[B] # None
          /\ current_temps[B] # current_temps[ev.room_name]

\* every switch-change callback has been processed: none is handed to a
\* worker and waiting
SwitchesProcessed == \A q \in queue : q.cb # "schedule_switch_cb"

\* C35: once all switch-change callbacks have been processed, a room with a
\* pending re-schedule timer, recorded or armed in the timer service, has
\* its master switch and its schedule switch on.
C35_PendingOnlyWithSwitchesOn ==
    SwitchesProcessed
    => \A room_name \in Rooms(Here) :
          Pending(room_name) \/ LiveTimers(room_name) # {}
          => SwitchesOn(Here, room_name)

\* the same for the timer the room has recorded only
RecordedOnlyWithSwitchesOn ==
    SwitchesProcessed
    => \A room_name \in Rooms(Here) :
          Pending(room_name) => SwitchesOn(Here, room_name)

\* the command a thermostat received last in a sequence of service calls
Commanded(cs, therm_name) ==
    LET I == {i \in 1..Len(cs) : cs[i].entity_id = therm_name}
        last == cs[CHOOSE i \in I : \A j \in I : j <= i]
    IN  [opmode |-> last.opmode, value |-> last.value]

\* C36: when window_sensor_cb has handled the closing of the last open
\* window of a room, with the master switch on and a recorded temperature,
\* the command each thermostat of the room received last is the one for
\* the recorded temperature.  The thermostats looked at are those that
\* were sent a command by this callback or by the step before it, so that
\* what they received last is known.
C36_ClosedWindowRestores ==
    [][\A room_name \in Rooms(Here) :
          /\ ev'.op = "window_sensor_cb"
          /\ ev'.room_name = room_name
          /\ ev'.new = "off"
          /\ master_switch_enabled(After)
          /\ get_open_windows(After, room_name) = {}
          /\ current_temps'[room_name] # None
          => \A therm_name \in Thermostats(room_name) :
                (\E i \in 1..Len(calls \o calls') :
                    (calls \o calls')[i].entity_id = therm_name)
                => Commanded(calls \o calls', therm_name)
                     = ThermCommand(therm_name, current_temps'[room_name])
      ]_vars

\* C37: a re-schedule timer that fires while a window of its room is open
\* leaves the room Idle and applies nothing; and when the closing of the
\* last open window is handled with master and schedule switch on, no timer
\* recorded and the schedule yielding a decision, the scheduled temperature
\* is sent to the thermostats and recorded.
C37_ScheduleNotLost ==
    [][\A room_name \in Rooms(Here) :
          /\ (/\ ev'.op = "reschedule_timer_cb"
               /\ ev'.room_name = room_name
               /\ get_open_windows(After, room_name) # {})
              => /\ room_name \notin DOMAIN reschedule_timers'
                 /\ calls' = << >>
                 /\ current_temps' = current_temps
          /\ (/\ ev'.op = "window_sensor_cb"
               /\ ev'.room_name = room_name
               /\ ev'.new = "off"
               /\ get_open_windows(After, room_name) = {}
               /\ SwitchesOn(After, room_name)
               /\ ~Pending(room_name)
               /\ get_scheduled_temp(After, room_name) # None)
              => Sent(After, room_name, get_scheduled_temp(After, room_name))
      ]_vars

\* the timer of a room has fired while its window was open and nothing was
\* applied; the switches are on and the schedule has a decision that differs
\* from the recorded temperature, to be applied when the window closes
C37_Witness ==
    /\ ev.op = "reschedule_timer_cb"
    /\ ev.pending
    /\ WindowOpen(ev.room_name)
    /\ calls = << >>
    /\ ~Pending(ev.room_name)
    /\ SwitchesOn(Here, ev.room_name)
    /\ get_scheduled_temp(Here, ev.room_name) # None
    /\ get_scheduled_temp(Here, ev.room_name) # current_temps[ev.room_name]

\* the room's recorded temperature is a number that, with the thermostat's
\* delta, lies below the thermostat's min_temp
BelowMinTemp(room_name, therm_name) ==
    /\ IsNumber(current_temps[room_name])
    /\ cfg_min_temp(therm_name) # None
    /\ current_temps[room_name].value + cfg_delta(therm_name)
         < cfg_min_temp(therm_name).value

\* the state with the calls of the last callback, as a callback left it
Left == [Here EXCEPT !.calls = calls]

\* C38: when a room has been set to a number that, plus the thermostat's
\* delta, lies below the thermostat's min_temp, the commands sent switch
\* that thermostat to its off mode and send it no temperature; and an
\* 'off' report of that thermostat arriving then changes nothing: the
\* record keeps the number, no timer is armed or cancelled, nothing is sent.
C38_BelowMinTempIsOff ==
    \A room_name \in Rooms(Here) :
        \A therm_name \in Thermostats(room_name) :
            BelowMinTemp(room_name, therm_name)
            => /\ Sent(Left, room_name, current_temps[room_name])
                  => /\ \E i \in 1..Len(calls) :
                           /\ calls[i].entity_id = therm_name
                           /\ calls[i].service = "opmode"
                           /\ calls[i].opmode = "Off"
                     /\ \A i \in 1..Len(calls) :
                           calls[i].entity_id = therm_name
                           => calls[i].service # "temp"
               /\ thermostat_state_cb(Here, room_name, therm_name,
                                      [opmode |-> "Off", temp |-> None],
                                      FALSE) = Here

\* a heaty_set_temp event has set the room to 21, below the min_temp of
\* t2, the commands went out and a re-schedule timer was armed
C38_Witness ==
    /\ ev.op = "set_temp_event_cb"
    /\ ev.room_name \in Rooms(Here)
    /\ BelowMinTemp(ev.room_name, "t2")
    /\ Sent(Left, ev.room_name, current_temps[ev.room_name])
    /\ Pending(ev.room_name)
    /\ LiveTimers(ev.room_name) # {}

\* the component of a date a range-string constraint of the configuration
\* is about
ConfiguredComponent(date, name) ==
    CASE name = "years" -> date.iso_year
      [] name = "months" -> date.month
      [] name = "days" -> date.day
      [] name = "weeks" -> date.week
      [] name = "weekdays" -> date.weekday

ReadsOpen(s, sensor_name) ==
    IF cfg_inverted(sensor_name)
    THEN ~s.window[sensor_name]
    ELSE s.window[sensor_name]

\* C40: the reading of a window sensor configured as inverted is inverted:
\* get_open_windows lists the sensor iff it does not read 'on', and
\* window_sensor_cb, told that the sensor turned 'on' with every window of
\* the room closed then, handles a closing: it does not turn the heating
\* of a room off whose recorded temperature is not off_temp, as it does
\* for an opened window.
C40_InvertedSensor ==
    \A room_name \in Rooms(Here) :
        /\ get_open_windows(Here, room_name)
             = {sensor_name \in WindowSensors(room_name) :
                   ReadsOpen(Here, sensor_name)}
        /\ (/\ ev.op = "window_sensor_cb"
             /\ ev.room_name = room_name
             /\ master_switch_enabled(Here)
             /\ \A sensor_name \in WindowSensors(room_name) :
                   ~ReadsOpen(Here, sensor_name))
            => (current_temps[room_name] # cfg_off_temp
                => calls # AllServiceCalls(room_name, cfg_off_temp, 1))

====
